---- MODULE Spec2Model ----
(***************************************************************************)
(* Model of jutil/validators.py: the filter layer, the checksum            *)
(* validators and the generators of the financial identifier library.      *)
(*                                                                         *)
(* A Python str is a sequence of characters; a character is a one-letter   *)
(* string, or a "U+XXXX" token for a code point outside ASCII.  The value  *)
(* None is NoneVal.  A call ends in an outcome record: it returns a value  *)
(* or raises an exception of some class with some code.                    *)
(***************************************************************************)
EXTENDS Integers, Sequences, FiniteSets, TLC

VARIABLES
    fn,     \* name of the function called last ("" before the first call)
    arg,    \* its first argument
    opt,    \* its remaining arguments and the random draws it made
    out,    \* its outcome
    from,   \* "caller", or the function whose return value was passed as arg
    log     \* the checks the call made, in order (where the call tells them)

vars == <<fn, arg, opt, out, from, log>>

----------------------------------------------------------------------------
(* Characters *)

\* code points 32..126 in order (the quote, the backslash and the backtick as tokens)
Ascii ==
    << " ", "!", "U+0022", "#", "$", "%", "&", "'", "(", ")", "*", "+", ",", "-", ".", "/",
       "0", "1", "2", "3", "4", "5", "6", "7", "8", "9", ":", ";", "<", "=", ">", "?",
       "@", "A", "B", "C", "D", "E", "F", "G", "H", "I", "J", "K", "L", "M", "N", "O",
       "P", "Q", "R", "S", "T", "U", "V", "W", "X", "Y", "Z", "[", "U+005C", "]", "^", "_",
       "U+0060", "a", "b", "c", "d", "e", "f", "g", "h", "i", "j", "k", "l", "m", "n", "o",
       "p", "q", "r", "s", "t", "u", "v", "w", "x", "y", "z", "{", "|", "}", "~" >>

\* the code points outside 32..126 that the model's inputs use
Tab       == "\t"
EAcute    == "U+00E9"
CapEAcute == "U+00C9"
SharpS    == "U+00DF"
ArabicDigit3 == "U+0663"
CircledOne   == "U+2460"

NonAscii == {Tab, EAcute, CapEAcute, SharpS, ArabicDigit3, CircledOne}

\* the code point of every character of the model
OrdTable ==
    [c \in NonAscii \cup {Ascii[i] : i \in 1..Len(Ascii)} |->
        CASE c = Tab -> 9
          [] c = EAcute -> 233
          [] c = CapEAcute -> 201
          [] c = SharpS -> 223
          [] c = ArabicDigit3 -> 1635
          [] c = CircledOne -> 9312
          [] OTHER -> 31 + (CHOOSE i \in 1..Len(Ascii) : Ascii[i] = c)]

\* Python's ord(ch)
Ord(ch) == OrdTable[ch]

Chr(n) == Ascii[n - 31]

InRange(ch, lo, hi) == Ord(ch) >= Ord(lo) /\ Ord(ch) <= Ord(hi)

IsAsciiDigit(ch) == InRange(ch, "0", "9")
IsAsciiUpper(ch) == InRange(ch, "A", "Z")
IsAsciiLower(ch) == InRange(ch, "a", "z")

\* str(int) of one decimal digit, and int(str) of one ASCII digit
DigitChar(d) == Chr(48 + d)
DigitVal(ch) == Ord(ch) - 48

\* Python's str.isspace / regex \s, on the model's characters
IsSpace(ch) == ch \in {" ", Tab}

\* regex \d on str patterns: any Unicode decimal digit (category Nd)
IsDecimalDigit(ch) == IsAsciiDigit(ch) \/ ch = ArabicDigit3

\* regex \w on str patterns: Unicode alphanumerics and the underscore
IsWordChar(ch) ==
    \/ IsDecimalDigit(ch) \/ IsAsciiUpper(ch) \/ IsAsciiLower(ch) \/ ch = "_"
    \/ ch \in {EAcute, CapEAcute, SharpS, CircledOne}

\* str.isdigit(): decimal digits and the other digit-valued characters
StrIsDigit(ch) == IsDecimalDigit(ch) \/ ch = CircledOne

\* str.upper() and str.lower() of one character (a sequence: upper may expand)
UpperChar(ch) ==
    IF ch \in NonAscii
    THEN CASE ch = EAcute -> <<CapEAcute>>
           [] ch = SharpS -> <<"S", "S">>
           [] OTHER -> <<ch>>
    ELSE IF IsAsciiLower(ch) THEN <<Chr(Ord(ch) - 32)>> ELSE <<ch>>

LowerChar(ch) ==
    IF ch \in NonAscii
    THEN CASE ch = CapEAcute -> <<EAcute>>
           [] OTHER -> <<ch>>
    ELSE IF IsAsciiUpper(ch) THEN <<Chr(Ord(ch) + 32)>> ELSE <<ch>>

\* unicodedata.normalize("NFKD", ch).encode("ASCII", "ignore").decode()
AsciiFoldChar(ch) ==
    IF ch \in NonAscii
    THEN CASE ch = EAcute -> <<"e">>
           [] ch = CapEAcute -> <<"E">>
           [] ch = CircledOne -> <<"1">>
           [] OTHER -> <<>>
    ELSE <<ch>>

----------------------------------------------------------------------------
(* Strings *)

NoneVal == <<"None">>

\* Python truthiness of a str-or-None argument
Truthy(v) == v # NoneVal /\ v # <<>>

Min(a, b) == IF a < b THEN a ELSE b
Max(a, b) == IF a > b THEN a ELSE b

\* v[a:b], v[a:], v[:-1], v[-1:], v[-2:-1] with Python's clamping
Slice(v, a, b) ==
    IF a >= Min(b, Len(v)) THEN <<>> ELSE SubSeq(v, a + 1, Min(b, Len(v)))
SliceFrom(v, a) == Slice(v, a, Len(v))
AllButLast(v) == Slice(v, 0, Len(v) - 1)
LastOne(v) == Slice(v, Max(Len(v) - 1, 0), Len(v))
SecondLast(v) == Slice(v, Max(Len(v) - 2, 0), Max(Len(v) - 1, 0))

RECURSIVE Flatten(_)
Flatten(ss) == IF ss = <<>> THEN <<>> ELSE Head(ss) \o Flatten(Tail(ss))

StrUpper(v) == Flatten([i \in 1..Len(v) |-> UpperChar(v[i])])
StrLower(v) == Flatten([i \in 1..Len(v) |-> LowerChar(v[i])])

RECURSIVE LStrip(_)
LStrip(v) == IF v # <<>> /\ IsSpace(Head(v)) THEN LStrip(Tail(v)) ELSE v
RECURSIVE RStrip(_)
RStrip(v) == IF v # <<>> /\ IsSpace(v[Len(v)]) THEN RStrip(AllButLast(v)) ELSE v
StrStrip(v) == RStrip(LStrip(v))

\* v.replace(a, b) for single characters
ReplaceChar(v, a, b) == [i \in 1..Len(v) |-> IF v[i] = a THEN b ELSE v[i]]

\* v.lstrip("0")
RECURSIVE LStripZeros(_)
LStripZeros(v) == IF v # <<>> /\ Head(v) = "0" THEN LStripZeros(Tail(v)) ELSE v

----------------------------------------------------------------------------
(* Outcomes *)

Return(v) == [kind |-> "return", value |-> v, exc |-> "", code |-> ""]
Raise(e, c) == [kind |-> "raise", value |-> NoneVal, exc |-> e, code |-> c]
ValidationError(c) == Raise("ValidationError", c)

Returned(r) == r.kind = "return"
Raised(r) == r.kind = "raise"

----------------------------------------------------------------------------
(* Filter layer *)

\* PATTERN.sub("", v) for a pattern [^...] is SelectSeq(v, Keep), with Keep
\* the characters the pattern leaves in place

KeepPhone(ch) == ch = "+" \/ InRange(ch, "0", "9")
KeepPassport(ch) == ch = "-" \/ InRange(ch, "A", "Z") \/ InRange(ch, "0", "9")
KeepDigit(ch) == InRange(ch, "0", "9")
KeepIban(ch) == InRange(ch, "A", "Z") \/ InRange(ch, "0", "9")
KeepVariableName(ch) ==
    InRange(ch, "0", "9") \/ InRange(ch, "A", "Z") \/ InRange(ch, "a", "z") \/ ch = "_"
KeepFiSsn(ch) == InRange(ch, "0", "9") \/ InRange(ch, "A", "Z") \/ ch = "+" \/ ch = "-"
KeepSeSsn(ch) == ch = "-" \/ InRange(ch, "0", "9")
KeepNonSpace(ch) == ~IsSpace(ch)

\* the exception of a str method or of re.sub called on None
AttributeError == Raise("AttributeError", "")
TypeError == Raise("TypeError", "")

phone_filter(v) == Return(IF Truthy(v) THEN SelectSeq(v, KeepPhone) ELSE <<>>)

email_filter(v) == Return(IF Truthy(v) THEN StrStrip(StrLower(v)) ELSE <<>>)

passport_filter(v) == Return(IF Truthy(v) THEN SelectSeq(StrUpper(v), KeepPassport) ELSE <<>>)

country_code_filter(v) ==
    IF v = NoneVal THEN AttributeError ELSE Return(StrUpper(StrStrip(v)))

bic_filter(v) ==
    IF v = NoneVal THEN AttributeError ELSE Return(StrUpper(StrStrip(v)))

ascii_filter(v) == Flatten([i \in 1..Len(v) |-> AsciiFoldChar(v[i])])

variable_name_sanitizer(v) ==
    IF v = NoneVal THEN TypeError
    ELSE LET w == SelectSeq(ReplaceChar(ascii_filter(v), " ", "_"), KeepVariableName)
         IN  Return(IF w # <<>> /\ StrIsDigit(w[1]) THEN <<"_">> \o w ELSE w)

digit_filter(v) == Return(IF Truthy(v) THEN SelectSeq(v, KeepDigit) ELSE <<>>)

iban_filter(v) == Return(IF Truthy(v) THEN SelectSeq(StrUpper(v), KeepIban) ELSE <<>>)

fi_ssn_filter(v) ==
    IF v = NoneVal THEN AttributeError ELSE Return(SelectSeq(StrUpper(v), KeepFiSsn))

\* the org-id filter with a pattern that keeps the dash, [^0-9-]
fi_company_org_id_filter_keeps_dash(v) ==
    IF v = NoneVal THEN TypeError
    ELSE LET w == SelectSeq(v, KeepSeSsn)
         IN  Return(IF Len(w) >= 2 THEN AllButLast(w) \o <<"-">> \o LastOne(w) ELSE <<>>)

fi_company_org_id_filter(v) ==
    IF v = NoneVal THEN TypeError
    ELSE LET w == SelectSeq(v, KeepDigit)
         IN  Return(IF Len(w) >= 2 THEN AllButLast(w) \o <<"-">> \o LastOne(w) ELSE <<>>)

se_ssn_filter(v) ==
    IF v = NoneVal THEN AttributeError ELSE Return(SelectSeq(StrUpper(v), KeepSeSsn))

\* the filters by name
FilterNames ==
    { "phone_filter", "email_filter", "passport_filter", "country_code_filter",
      "bic_filter", "iban_filter", "digit_filter", "fi_ssn_filter", "se_ssn_filter",
      "fi_company_org_id_filter", "variable_name_sanitizer" }

ApplyFilter(f, v) ==
    CASE f = "phone_filter" -> phone_filter(v)
      [] f = "email_filter" -> email_filter(v)
      [] f = "passport_filter" -> passport_filter(v)
      [] f = "country_code_filter" -> country_code_filter(v)
      [] f = "bic_filter" -> bic_filter(v)
      [] f = "iban_filter" -> iban_filter(v)
      [] f = "digit_filter" -> digit_filter(v)
      [] f = "fi_ssn_filter" -> fi_ssn_filter(v)
      [] f = "se_ssn_filter" -> se_ssn_filter(v)
      [] f = "fi_company_org_id_filter" -> fi_company_org_id_filter(v)
      [] f = "variable_name_sanitizer" -> variable_name_sanitizer(v)

----------------------------------------------------------------------------
(* Inputs of the filter layer: every string of at most MaxLen characters   *)
(* over FilterChars, and the missing value.                                *)

MaxLen == 3

FilterChars == {"1", "2", "A", "a", " ", "+", "-", SharpS, CircledOne}

Strings(chars, n) == UNION {[1..k -> chars] : k \in 0..n}

FilterInputs == Strings(FilterChars, MaxLen) \cup {NoneVal}

NoOpt == [none |-> TRUE]

\* before the call: the caller holds an input
Idle(inputs) ==
    /\ fn = ""
    /\ arg \in inputs
    /\ opt = NoOpt
    /\ out = Return(NoneVal)
    /\ from = "caller"
    /\ log = <<>>

InitFilter == Idle(FilterInputs)

\* the caller applies filter f to its input
CallFilter(f) ==
    /\ fn = ""
    /\ fn' = f
    /\ out' = ApplyFilter(f, arg)
    /\ UNCHANGED <<arg, opt, from, log>>

PhoneFilter == CallFilter("phone_filter")
EmailFilter == CallFilter("email_filter")
PassportFilter == CallFilter("passport_filter")
CountryCodeFilter == CallFilter("country_code_filter")
BicFilter == CallFilter("bic_filter")
IbanFilter == CallFilter("iban_filter")
DigitFilter == CallFilter("digit_filter")
FiSsnFilter == CallFilter("fi_ssn_filter")
SeSsnFilter == CallFilter("se_ssn_filter")
FiCompanyOrgIdFilter == CallFilter("fi_company_org_id_filter")
VariableNameSanitizer == CallFilter("variable_name_sanitizer")

\* the caller passes the value a filter returned to the same filter again
Refilter ==
    /\ fn \in FilterNames
    /\ from = "caller"
    /\ Returned(out)
    /\ fn' = fn
    /\ arg' = out.value
    /\ opt' = NoOpt
    /\ out' = ApplyFilter(fn, out.value)
    /\ from' = fn
    /\ UNCHANGED log

NextFilter ==
    \/ PhoneFilter \/ EmailFilter \/ PassportFilter \/ CountryCodeFilter
    \/ BicFilter \/ IbanFilter \/ DigitFilter \/ FiSsnFilter \/ SeSsnFilter
    \/ FiCompanyOrgIdFilter \/ VariableNameSanitizer
    \/ Refilter

SpecFilter == InitFilter /\ [][NextFilter]_vars

\* C4: a filter applied to its own result returns that result unchanged
FilterIdempotent ==
    (fn \in FilterNames /\ from = fn) => (Returned(out) /\ out.value = arg)

\* the org-id filter put a dash into its input, and was applied again to
\* what it returned
FilterIdempotentWitness ==
    /\ fn = "fi_company_org_id_filter"
    /\ from = fn
    /\ arg = <<"1", "-", "2">>
    /\ out = Return(<<"1", "-", "2">>)

\* C5: each filter of the list returns "" for the empty string and for None
FalsyInputGivesEmpty ==
    (/\ fn \in FilterNames \ {"variable_name_sanitizer"}
     /\ from = "caller"
     /\ ~Truthy(arg)) => out = Return(<<>>)

----------------------------------------------------------------------------
(* Numerals: decimal.Decimal under the default context *)

\* str(n) for an int n >= 0
RECURSIVE IntToStr(_)
IntToStr(n) == IF n < 10 THEN <<DigitChar(n)>> ELSE IntToStr(n \div 10) \o <<DigitChar(n % 10)>>

\* "{}".format(n): no zero padding
Format02Unpadded(n) == IntToStr(n)

\* "{:02}".format(n)
Format02(n) == IF n < 10 THEN <<"0">> \o IntToStr(n) ELSE IntToStr(n)

\* int(num[i:]) % m continued from the remainder acc of num[:i-1], digit by digit
RECURSIVE NumeralModFrom(_, _, _, _)
NumeralModFrom(num, m, i, acc) ==
    IF i > Len(num) THEN acc
    ELSE NumeralModFrom(num, m, i + 1, (acc * 10 + DigitVal(num[i])) % m)

\* int(num) % m for a numeral of any length
NumeralMod(num, m) == NumeralModFrom(num, m, 1, 0)

\* the number of significant digits of the numeral num, and the first of them
SignificantFrom(num) ==
    CHOOSE i \in 1..(Len(num) + 1) :
        /\ i = Len(num) + 1 \/ num[i] # "0"
        /\ \A j \in 1..(i - 1) : num[j] = "0"

\* the precision of the default decimal context
DecimalPrec == 28

\* the integer quotient of num by the two-digit m needs more than DecimalPrec
\* digits, that is num >= m * 10^DecimalPrec
QuotientTooLong(num, m) ==
    LET k == SignificantFrom(num)
        digits == Len(num) - k + 1
    IN  \/ digits > DecimalPrec + 2
        \/ /\ digits = DecimalPrec + 2
           /\ DigitVal(num[k]) * 10 + DigitVal(num[k + 1]) >= m

InvalidOperation == Raise("decimal.InvalidOperation", "")

\* Decimal(num) % Decimal(m) for a string num of ASCII digits and 10 <= m <= 99:
\* the remainder, or InvalidOperation for the empty string (ConversionSyntax)
\* and for a quotient longer than the precision (DivisionImpossible)
DecimalRem(num, m) ==
    IF num = <<>> \/ QuotientTooLong(num, m) THEN InvalidOperation
    ELSE Return(NumeralMod(num, m))

----------------------------------------------------------------------------
(* IBAN *)

\* jutil/bank_const_iban.py: the countries that jutil/tests.py uses
IbanTable ==
    { <<"A", "L", 28>>, <<"B", "E", 16>>, <<"C", "Z", 24>>, <<"D", "K", 18>>,
      <<"E", "E", 20>>, <<"F", "I", 18>>, <<"F", "R", 27>>, <<"H", "R", 21>>,
      <<"I", "S", 26>>, <<"M", "D", 24>>, <<"S", "E", 24>> }

IBAN_LENGTH_BY_COUNTRY ==
    [cc \in {<<t[1], t[2]>> : t \in IbanTable} |->
        (CHOOSE t \in IbanTable : <<t[1], t[2]>> = cc)[3]]

\* the loop that spells a string as a numeral: a character that is no digit
\* becomes str(ord(ch) - ord("A") + 10)
IbanNumeral(v) ==
    Flatten([i \in 1..Len(v) |->
        IF v[i] \notin {"0", "1", "2", "3", "4", "5", "6", "7", "8", "9"}
        THEN IntToStr(Ord(v[i]) - Ord("A") + 10)
        ELSE <<v[i]>>])

\* iban_validator with the numeric part computed before the length is compared
IbanValidatorRunChecksumFirst(v0) ==
    LET v == iban_filter(v0).value
        country == StrUpper(Slice(v, 0, 2))
    IN  IF v = <<>>
        THEN [out |-> ValidationError("invalid_iban"), log |-> <<"empty">>]
        ELSE IF country \notin DOMAIN IBAN_LENGTH_BY_COUNTRY
        THEN [out |-> ValidationError("invalid_country_code"), log |-> <<"empty", "country">>]
        ELSE LET iban_len == IBAN_LENGTH_BY_COUNTRY[country]
                 x == DecimalRem(IbanNumeral(SliceFrom(v, 4) \o Slice(v, 0, 4)), 97)
             IN  IF iban_len <= 26 /\ Raised(x)
                 THEN [out |-> x, log |-> <<"empty", "country", "checksum">>]
                 ELSE IF iban_len <= 26 /\ x.value # 1
                 THEN [out |-> ValidationError("invalid_iban"),
                       log |-> <<"empty", "country", "checksum">>]
                 ELSE IF iban_len # Len(v)
                 THEN [out |-> ValidationError("invalid_iban"),
                       log |-> <<"empty", "country", "checksum", "length">>]
                 ELSE [out |-> Return(NoneVal),
                       log |-> <<"empty", "country", "checksum", "length">>]

\* iban_validator with the numeric part checked at every length
IbanValidatorRunEveryLength(v0) ==
    LET v == iban_filter(v0).value
        country == StrUpper(Slice(v, 0, 2))
    IN  IF v = <<>>
        THEN [out |-> ValidationError("invalid_iban"), log |-> <<"empty">>]
        ELSE IF country \notin DOMAIN IBAN_LENGTH_BY_COUNTRY
        THEN [out |-> ValidationError("invalid_country_code"), log |-> <<"empty", "country">>]
        ELSE IF IBAN_LENGTH_BY_COUNTRY[country] # Len(v)
        THEN [out |-> ValidationError("invalid_iban"), log |-> <<"empty", "country", "length">>]
        ELSE LET x == DecimalRem(IbanNumeral(SliceFrom(v, 4) \o Slice(v, 0, 4)), 97)
             IN  [out |-> IF Raised(x) THEN x
                          ELSE IF x.value # 1 THEN ValidationError("invalid_iban")
                          ELSE Return(NoneVal),
                  log |-> <<"empty", "country", "length", "checksum">>]

\* iban_validator(v0): its outcome and the checks it made, in order
IbanValidatorRun(v0) ==
    LET v == iban_filter(v0).value
        country == StrUpper(Slice(v, 0, 2))
    IN  IF v = <<>>
        THEN [out |-> ValidationError("invalid_iban"), log |-> <<"empty">>]
        ELSE IF country \notin DOMAIN IBAN_LENGTH_BY_COUNTRY
        THEN [out |-> ValidationError("invalid_country_code"), log |-> <<"empty", "country">>]
        ELSE LET iban_len == IBAN_LENGTH_BY_COUNTRY[country]
             IN  IF iban_len # Len(v)
                 THEN [out |-> ValidationError("invalid_iban"),
                       log |-> <<"empty", "country", "length">>]
                 ELSE IF iban_len <= 26
                 THEN LET x == DecimalRem(IbanNumeral(SliceFrom(v, 4) \o Slice(v, 0, 4)), 97)
                      IN  [out |-> IF Raised(x) THEN x
                                   ELSE IF x.value # 1 THEN ValidationError("invalid_iban")
                                   ELSE Return(NoneVal),
                           log |-> <<"empty", "country", "length", "checksum">>]
                 ELSE [out |-> Return(NoneVal), log |-> <<"empty", "country", "length">>]

iban_validator(v0) == IbanValidatorRun(v0).out

\* the countries of length up to 27, the length the comment of the code names
GeneratorCountriesUpTo27 ==
    {cc \in DOMAIN IBAN_LENGTH_BY_COUNTRY : IBAN_LENGTH_BY_COUNTRY[cc] <= 27}

\* the countries random.choice picks from when no country code is given
GeneratorCountries ==
    {cc \in DOMAIN IBAN_LENGTH_BY_COUNTRY : IBAN_LENGTH_BY_COUNTRY[cc] <= 26}

\* a stream of random digits: the digits of head, then fill for ever
RandomDigits(stream, n) ==
    [i \in 1..n |-> IF i <= Len(stream.head) THEN stream.head[i] ELSE stream.fill]

\* the search loop over range(1, 97)
ChecksumSearchUpTo96(num0) ==
    LET Try(checksum) == DecimalRem(num0 \o IbanNumeral(Format02(checksum)), 97)
        ends == {checksum \in 1..96 :
                    LET x == Try(checksum) IN Raised(x) \/ x.value = 1}
        first == CHOOSE checksum \in ends : \A c \in ends : checksum <= c
    IN  IF ends = {} THEN ValidationError("invalid_iban")
        ELSE IF Raised(Try(first)) THEN Try(first)
        ELSE Return(Format02(first))

\* the search loop of iban_generator: the loop ends at the first checksum of
\* range(1, 100) whose numeral leaves remainder 1 or makes the arithmetic
\* raise; it gives the checksum string, that error, or the error after the loop
ChecksumSearch(num0) ==
    LET Try(checksum) == DecimalRem(num0 \o IbanNumeral(Format02(checksum)), 97)
        ends == {checksum \in 1..99 :
                    LET x == Try(checksum) IN Raised(x) \/ x.value = 1}
        first == CHOOSE checksum \in ends : \A c \in ends : checksum <= c
    IN  IF ends = {} THEN ValidationError("invalid_iban")
        ELSE IF Raised(Try(first)) THEN Try(first)
        ELSE Return(Format02(first))

\* iban_generator(country_code), with pick the country random.choice draws
\* and stream the digits random.choice draws
iban_generator(country_code, pick, stream) ==
    LET cc == IF Truthy(country_code) THEN country_code ELSE pick
    IN  IF cc \notin DOMAIN IBAN_LENGTH_BY_COUNTRY
        THEN ValidationError("invalid_country_code")
        ELSE LET nlen == IBAN_LENGTH_BY_COUNTRY[cc]
                 bban == RandomDigits(stream, nlen - 4)
                 found == ChecksumSearch(IbanNumeral(bban \o cc))
             IN  IF nlen > 26 THEN ValidationError("invalid_iban")
                 ELSE IF Raised(found) THEN found
                 ELSE Return(cc \o found.value \o bban)

----------------------------------------------------------------------------
(* Callers of the IBAN validator and generator *)

MaxHead == 1

Digits == {"0", "1", "2", "3", "4", "5", "6", "7", "8", "9"}

\* the digit streams the generator may draw
Streams == [head : Strings(Digits, MaxHead), fill : {"0", "5", "9"}]

\* the country codes a caller passes to the generator
GeneratorArgs == {<<>>, <<"X", "X">>, <<"f", "i">>} \cup DOMAIN IBAN_LENGTH_BY_COUNTRY

\* account bodies a caller types: digits and letters
BodyStreams == [head : Strings({"0", "7", "Z"}, MaxHead), fill : {"0", "Z"}]

\* country code, two check digits and a body, n characters in all
TypedIban(cc, d1, d2, body, n) == cc \o <<d1, d2>> \o RandomDigits(body, n - 4)

\* every registered country with every pair of check digits, at the registered length
ExactLengthIbans ==
    {TypedIban(cc, d1, d2, body, IBAN_LENGTH_BY_COUNTRY[cc]) :
        cc \in DOMAIN IBAN_LENGTH_BY_COUNTRY, d1 \in Digits, d2 \in Digits, body \in BodyStreams}

\* one character short or long
WrongLengthIbans ==
    {TypedIban(cc, "2", "1", body, IBAN_LENGTH_BY_COUNTRY[cc] + delta) :
        cc \in DOMAIN IBAN_LENGTH_BY_COUNTRY, body \in BodyStreams, delta \in {-1, 1}}

\* prefixes that are no registered country
UnknownCountryIbans ==
    {TypedIban(cc, "2", "1", body, n) :
        cc \in {<<"X", "X">>, <<"F", "1">>, <<"1", "8">>}, body \in BodyStreams, n \in {18, 24}}

\* jutil/tests.py: a valid account, the same with another last digit, and
\* the valid one as a person writes it
KnownIbans ==
    { <<"F","I","2","1","1","2","3","4","5","6","0","0","0","0","0","7","8","5">>,
      <<"F","I","2","1","1","2","3","4","5","6","0","0","0","0","0","7","8","4">>,
      <<" ","F","I","2","1"," ","1","2","3","4"," ","5","6","0","0"," ","0","0","0","7"," ","8","5"," ">>,
      <<"f","i","2","1","-","1","2","3","4","5","6","0","0","0","0","0","7","8","5">>,
      <<"B","E","6","8","5","3","9","0","0","7","5","4","7","0","3","4">>,
      <<"F","R","3","2","1","2","7","3","9","0","0","0","5","0","1","8","6","9","4","8","1","8","8","2","E","9","4">> }

IbanInputs ==
    ExactLengthIbans \cup WrongLengthIbans \cup UnknownCountryIbans \cup KnownIbans
        \cup Strings({"F", "I", " ", "-"}, 2) \cup {NoneVal}

InitIban == Idle(IbanInputs \cup GeneratorArgs)

\* the caller validates the account number it holds
IbanValidator ==
    /\ fn = ""
    /\ fn' = "iban_validator"
    /\ out' = iban_validator(arg)
    /\ log' = IbanValidatorRun(arg).log
    /\ UNCHANGED <<arg, opt, from>>

\* the caller asks for an account of the country it holds (any country for "")
IbanGenerator ==
    /\ fn = ""
    /\ arg \in GeneratorArgs
    /\ \E pick \in (IF arg = <<>> THEN GeneratorCountries ELSE {arg}), stream \in Streams :
        /\ fn' = "iban_generator"
        /\ opt' = [country |-> pick, stream |-> stream]
        /\ out' = iban_generator(arg, pick, stream)
    /\ UNCHANGED <<arg, from, log>>

\* the caller validates the account the generator returned
ValidateGenerated ==
    /\ fn = "iban_generator"
    /\ Returned(out)
    /\ fn' = "iban_validator"
    /\ arg' = out.value
    /\ from' = "iban_generator"
    /\ out' = iban_validator(out.value)
    /\ log' = IbanValidatorRun(out.value).log
    /\ UNCHANGED opt

NextIban == IbanValidator \/ IbanGenerator \/ ValidateGenerated

SpecIban == InitIban /\ [][NextIban]_vars

\* the value modulo 97 of the numeral that spells v with A..Z as 10..35
RECURSIVE SpelledMod97(_, _, _)
SpelledMod97(v, i, acc) ==
    IF i > Len(v) THEN acc
    ELSE IF IsAsciiDigit(v[i]) THEN SpelledMod97(v, i + 1, (acc * 10 + DigitVal(v[i])) % 97)
    ELSE SpelledMod97(v, i + 1, (acc * 100 + (Ord(v[i]) - 55)) % 97)

Filtered(v0) == iban_filter(v0).value

Registered(v) == Slice(v, 0, 2) \in DOMAIN IBAN_LENGTH_BY_COUNTRY

\* C1: the generator, given a registered country of length at most 26 or no
\* country, returns an account that starts with the chosen country and has
\* the registered length, and the validator accepts what it returned
GeneratedIbanAccepted ==
    /\ (fn = "iban_generator" /\ (arg = <<>> \/ arg \in GeneratorCountries)) =>
            /\ Returned(out)
            /\ opt.country \in GeneratorCountries
            /\ arg # <<>> => opt.country = arg
            /\ Slice(out.value, 0, 2) = opt.country
            /\ Len(out.value) = IBAN_LENGTH_BY_COUNTRY[opt.country]
    /\ (fn = "iban_validator" /\ from = "iban_generator") => out = Return(NoneVal)

\* an account of the longest supported length, generated for no given
\* country with a one-digit checksum, was validated
GeneratedIbanAcceptedWitness ==
    /\ fn = "iban_validator"
    /\ from = "iban_generator"
    /\ Len(arg) = 26
    /\ arg[3] = "0"
    /\ Returned(out)

\* C2: with a registered prefix and the registered length L <= 26 the
\* validator accepts exactly the inputs whose spelled numeral is 1 modulo 97,
\* and fails the others with invalid_iban
IbanAcceptedIffMod97 ==
    (/\ fn = "iban_validator"
     /\ Registered(Filtered(arg))
     /\ Len(Filtered(arg)) = IBAN_LENGTH_BY_COUNTRY[Slice(Filtered(arg), 0, 2)]
     /\ Len(Filtered(arg)) <= 26) =>
        LET v == Filtered(arg)
            good == SpelledMod97(SliceFrom(v, 4) \o Slice(v, 0, 4), 1, 0) = 1
        IN  out = IF good THEN Return(NoneVal) ELSE ValidationError("invalid_iban")

\* C3: the structural checks come first and in order: empty, then unknown
\* country, then wrong length; the numeric part runs only after all three
IbanStructureFirst ==
    fn = "iban_validator" =>
        LET v == Filtered(arg)
            known == Registered(v)
            checksum == \E i \in 1..Len(log) : log[i] = "checksum"
        IN  /\ v = <<>> => out = ValidationError("invalid_iban")
            /\ (v # <<>> /\ ~known) => out = ValidationError("invalid_country_code")
            /\ (known /\ Len(v) # IBAN_LENGTH_BY_COUNTRY[Slice(v, 0, 2)]) =>
                    out = ValidationError("invalid_iban")
            /\ checksum =>
                    (v # <<>> /\ known /\ Len(v) = IBAN_LENGTH_BY_COUNTRY[Slice(v, 0, 2)])
            /\ out.exc = "decimal.InvalidOperation" => checksum

\* an account one character too long, whose numeral the arithmetic could
\* not divide, failed on its length
IbanStructureFirstWitness ==
    /\ fn = "iban_validator"
    /\ Slice(arg, 0, 2) = <<"F", "I">>
    /\ Len(arg) = 19
    /\ arg[19] = "Z"
    /\ Raised(DecimalRem(IbanNumeral(SliceFrom(arg, 4) \o Slice(arg, 0, 4)), 97))
    /\ out = ValidationError("invalid_iban")
    /\ log = <<"empty", "country", "length">>

----------------------------------------------------------------------------
(* Validators *)

\* STRIP_WHITESPACE.sub("", v) and re.sub(r"\s+", "", v)
StripWhitespace(v) == SelectSeq(v, KeepNonSpace)

\* bic_validator(v0)
bic_validator(v0) ==
    LET f == bic_filter(v0)
    IN  IF Raised(f) THEN f
        ELSE IF ~(8 <= Len(f.value) /\ Len(f.value) <= 11) THEN ValidationError("invalid_bic")
        ELSE Return(NoneVal)

\* PHONE_VALIDATOR.fullmatch(v): \+?\d{6,}
PhoneMatch(v) ==
    LET d == IF v # <<>> /\ v[1] = "+" THEN Tail(v) ELSE v
    IN  Len(d) >= 6 /\ \A i \in 1..Len(d) : IsDecimalDigit(d[i])

phone_validator(v0) ==
    LET v == phone_filter(v0).value
    IN  IF v = <<>> \/ ~PhoneMatch(v) THEN ValidationError("invalid_phone")
        ELSE Return(NoneVal)

\* the class [a-zA-Z0-9\._-] of EMAIL_VALIDATOR
EmailChar(ch) ==
    \/ InRange(ch, "a", "z") \/ InRange(ch, "A", "Z") \/ InRange(ch, "0", "9")
    \/ ch \in {".", "_", "-"}

\* EMAIL_VALIDATOR.fullmatch(v): [a-zA-Z0-9\._-]+@[a-zA-Z0-9\._-]+\.[a-zA-Z]+
EmailMatch(v) ==
    \E at \in 2..Len(v) : \E dot \in (at + 2)..(Len(v) - 1) :
        /\ v[at] = "@"
        /\ v[dot] = "."
        /\ \A i \in 1..(at - 1) : EmailChar(v[i])
        /\ \A i \in (at + 1)..(dot - 1) : EmailChar(v[i])
        /\ \A i \in (dot + 1)..Len(v) : InRange(v[i], "a", "z") \/ InRange(v[i], "A", "Z")

\* is_email(v)
is_email(v0) ==
    LET v == email_filter(v0).value
    IN  v # <<>> /\ EmailMatch(v)

email_validator(v0) ==
    IF ~is_email(v0) THEN ValidationError("invalid_email") ELSE Return(NoneVal)

passport_validator(v0) ==
    LET v == passport_filter(v0).value
    IN  IF v = <<>> \/ Len(v) < 5 THEN ValidationError("invalid_passport")
        ELSE Return(NoneVal)

country_code_validator(v0) ==
    LET f == country_code_filter(v0)
    IN  IF Raised(f) THEN f
        ELSE IF ~(2 <= Len(f.value) /\ Len(f.value) <= 3)
        THEN ValidationError("invalid_country_code")
        ELSE Return(NoneVal)

\* the sum with the weights counted from the first digit
RECURSIVE WeighedSumFromFirst(_, _)
WeighedSumFromFirst(v, j) ==
    IF j >= Len(v) THEN 0
    ELSE DigitVal(v[j + 1]) * <<7, 3, 1>>[(j % 3) + 1] + WeighedSumFromFirst(v, j + 1)

\* the sum of int(v[vlen - 1 - j]) * weights[j % 3] over j in range(vlen)
RECURSIVE WeighedSum(_, _)
WeighedSum(v, j) ==
    IF j >= Len(v) THEN 0
    ELSE DigitVal(v[Len(v) - j]) * <<7, 3, 1>>[(j % 3) + 1] + WeighedSum(v, j + 1)

\* fi_payment_reference_number(num); a ValidationError without a code
fi_payment_reference_number(num) ==
    LET v == StripWhitespace(num)
        w == LStripZeros(v)
    IN  IF digit_filter(v).value # v THEN ValidationError("")
        ELSE IF Len(w) < 3 THEN ValidationError("")
        ELSE Return(w \o IntToStr((10 - (WeighedSum(w, 0) % 10)) % 10))

fi_payment_reference_validator(v0) ==
    LET v == StripWhitespace(v0)
        n == fi_payment_reference_number(AllButLast(v))
    IN  IF Raised(n) THEN n
        ELSE IF n.value # v THEN ValidationError("")
        ELSE Return(NoneVal)

\* the numeral loop of iso_payment_reference_validator over v: the numeral,
\* or the error for a character that is neither a digit nor a value 10..35
IsoNumeral(v) ==
    IF \E i \in 1..Len(v) :
            /\ ~(Ord("0") <= Ord(v[i]) /\ Ord(v[i]) <= Ord("9"))
            /\ (Ord(v[i]) - 55 < 10 \/ Ord(v[i]) - 55 > 35)
    THEN ValidationError("")
    ELSE Return(Flatten([i \in 1..Len(v) |->
            IF Ord("0") <= Ord(v[i]) /\ Ord(v[i]) <= Ord("9") THEN <<v[i]>>
            ELSE IntToStr(Ord(v[i]) - 55)]))

iso_payment_reference_validator(v0) ==
    LET v == LStripZeros(StripWhitespace(v0))
        num == IsoNumeral(SliceFrom(v, 4) \o Slice(v, 0, 4))
        res == DecimalRem(num.value, 97)
    IN  IF Raised(num) THEN num
        ELSE IF Raised(res) THEN res
        ELSE IF res.value # 1 THEN ValidationError("")
        ELSE Return(NoneVal)

\* v.replace("-", "", 1)
RemoveFirstDash(v) ==
    IF \E i \in 1..Len(v) : v[i] = "-"
    THEN LET k == CHOOSE i \in 1..Len(v) : v[i] = "-" /\ \A j \in 1..(i - 1) : v[j] # "-"
         IN  Slice(v, 0, k - 1) \o SliceFrom(v, k)
    ELSE v

\* the sum of int(v[i]) * m over the multipliers (7, 9, 10, 5, 8, 4, 2)
OrgIdSum(v) ==
    DigitVal(v[1]) * 7 + DigitVal(v[2]) * 9 + DigitVal(v[3]) * 10 + DigitVal(v[4]) * 5
        + DigitVal(v[5]) * 8 + DigitVal(v[6]) * 4 + DigitVal(v[7]) * 2

\* the validator with the check digit 0 required for the remainder 0
fi_company_org_id_validator_zero_checked(v0) ==
    LET s == StripWhitespace(v0)
        f == fi_company_org_id_filter(s).value
        prefix == IF Slice(f, 0, 2) = Slice(s, 0, 2) THEN <<"F", "I">> ELSE Slice(s, 0, 2)
        v == RemoveFirstDash(f)
        remainder == OrgIdSum(v) % 11
    IN  IF SecondLast(f) # <<"-">> \/ prefix # <<"F", "I">>
        THEN ValidationError("invalid_company_org_id")
        ELSE IF Len(v) # 8 THEN ValidationError("invalid_company_org_id")
        ELSE IF remainder = 1 THEN ValidationError("invalid_company_org_id")
        ELSE IF IntToStr((11 - remainder) % 11) # LastOne(v)
        THEN ValidationError("invalid_company_org_id")
        ELSE Return(NoneVal)

fi_company_org_id_validator(v0) ==
    LET s == StripWhitespace(v0)
        f == fi_company_org_id_filter(s).value
        prefix == IF Slice(f, 0, 2) = Slice(s, 0, 2) THEN <<"F", "I">> ELSE Slice(s, 0, 2)
        v == RemoveFirstDash(f)
        remainder == OrgIdSum(v) % 11
    IN  IF SecondLast(f) # <<"-">> \/ prefix # <<"F", "I">>
        THEN ValidationError("invalid_company_org_id")
        ELSE IF Len(v) # 8 THEN ValidationError("invalid_company_org_id")
        ELSE IF remainder = 1 THEN ValidationError("invalid_company_org_id")
        ELSE IF remainder >= 2 /\ IntToStr(11 - remainder) # LastOne(v)
        THEN ValidationError("invalid_company_org_id")
        ELSE Return(NoneVal)

\* FI_SSN_VALIDATOR.fullmatch(v): ^\d{6}[+-A]\d{3}[\d\w]$
FiSsnMatch(v) ==
    /\ Len(v) = 11
    /\ \A i \in 1..6 : IsDecimalDigit(v[i])
    /\ InRange(v[7], "+", "A")
    /\ \A i \in 8..10 : IsDecimalDigit(v[i])
    /\ IsDecimalDigit(v[11]) \/ IsWordChar(v[11])

\* the letters of the check character
FiSsnLetters ==
    << "A", "B", "C", "D", "E", "F", "H", "J", "K", "L", "M",
       "N", "P", "R", "S", "T", "U", "V", "W", "X", "Y" >>

\* digits.get(d, str(d)) in fi_ssn_validator
FiSsnValidatorDigits(d) == IF d >= 10 /\ d <= 30 THEN <<FiSsnLetters[d - 9]>> ELSE IntToStr(d)

fi_ssn_validator(v0) ==
    LET f == fi_ssn_filter(v0)
        v == f.value
        d == DecimalRem(Slice(v, 0, 6) \o Slice(v, 7, 10), 31)
    IN  IF Raised(f) THEN f
        ELSE IF ~FiSsnMatch(v) THEN ValidationError("invalid_ssn")
        ELSE IF Raised(d) THEN d
        ELSE IF FiSsnValidatorDigits(d.value) # LastOne(v) THEN ValidationError("invalid_ssn")
        ELSE Return(NoneVal)

\* SE_SSN_VALIDATOR.fullmatch(v): ^\d{6}[-]\d{3}[\d]$
SeSsnMatch(v) ==
    /\ Len(v) = 11
    /\ \A i \in 1..6 : IsDecimalDigit(v[i])
    /\ v[7] = "-"
    /\ \A i \in 8..11 : IsDecimalDigit(v[i])

\* dsum of se_ssn_validator over range(9) from index i on (0-based)
RECURSIVE SeSsnDsum(_, _)
SeSsnDsum(v, i) ==
    IF i >= 9 THEN 0
    ELSE LET x == IF i % 2 = 0 THEN DigitVal(v[i + 1]) + DigitVal(v[i + 1])
                  ELSE DigitVal(v[i + 1])
         IN  ((x % 10) + ((x \div 10) % 10)) + SeSsnDsum(v, i + 1)

\* the checksum without the step that turns 10 into 0
SeSsnChecksumKeepsTen(v) == 10 - (SeSsnDsum(v, 0) % 10)

\* the checksum digit se_ssn_validator compares with the last digit
SeSsnChecksum(v) ==
    LET checksum == 10 - (SeSsnDsum(v, 0) % 10)
    IN  IF checksum = 10 THEN 0 ELSE checksum

se_ssn_validator(v0) ==
    LET f == se_ssn_filter(v0)
        v == SelectSeq(f.value, KeepDigit)
    IN  IF Raised(f) THEN f
        ELSE IF ~SeSsnMatch(f.value) THEN ValidationError("invalid_ssn")
        ELSE IF DigitVal(LastOne(v)[1]) # SeSsnChecksum(v) THEN ValidationError("invalid_ssn")
        ELSE Return(NoneVal)

ValidatorNames ==
    { "iban_validator", "bic_validator", "phone_validator", "email_validator",
      "passport_validator", "country_code_validator", "fi_ssn_validator",
      "se_ssn_validator", "fi_company_org_id_validator",
      "fi_payment_reference_validator", "iso_payment_reference_validator" }

ApplyValidator(f, v) ==
    CASE f = "iban_validator" -> iban_validator(v)
      [] f = "bic_validator" -> bic_validator(v)
      [] f = "phone_validator" -> phone_validator(v)
      [] f = "email_validator" -> email_validator(v)
      [] f = "passport_validator" -> passport_validator(v)
      [] f = "country_code_validator" -> country_code_validator(v)
      [] f = "fi_ssn_validator" -> fi_ssn_validator(v)
      [] f = "se_ssn_validator" -> se_ssn_validator(v)
      [] f = "fi_company_org_id_validator" -> fi_company_org_id_validator(v)
      [] f = "fi_payment_reference_validator" -> fi_payment_reference_validator(v)
      [] f = "iso_payment_reference_validator" -> iso_payment_reference_validator(v)

----------------------------------------------------------------------------
(* Callers of the validators *)

ValidatorChars == {"0", "1", " ", "R", "F", "a", "@", "."}

\* jutil/tests.py: values the tests validate, one or more for each validator
KnownValues ==
    { <<"H","E","L","S","F","I","H","H">>,
      <<"H","E","L","S","F","I","H","H","X","X","X">>,
      <<"+","3","5","8","4","5","6","3","4","3","7","6","7">>,
      <<"k","a","j","a","l","a","@","e","x","a","m","p","l","e",".","c","o","m">>,
      <<"2","1","4","1","2","3","1","2","3","1","2">>,
      <<"F","I">>,
      <<"F","I","N">>,
      <<"1","1","0","3","0","5","+","2","8","3","X">>,
      <<"2","3","1","2","9","8","-","9","6","5","X">>,
      <<"8","1","1","2","2","8","-","9","8","7","4">>,
      <<"8","1","1","2","2","8","-","9","8","7","3">>,
      <<"2","0","8","4","0","6","9","-","9">>,
      <<"F","I","2","0","8","4","0","6","9","9">>,
      <<"2","0","8","4","0","6","9","-","8">>,
      <<"3","0","2","3","0","0">>,
      <<"3","0","2","3","0","1">>,
      <<"R","F","9","2"," ","1","2","2","9">>,
      <<"R","F","9","2"," ","1","2","2","9","}">>,
      <<"F","I","2","1","1","2","3","4","5","6","0","0","0","0","0","7","8","5">> }

\* forty digits: a reference number too long for the numeral arithmetic
LongNumber == [i \in 1..40 |-> "1"]

ValidatorInputs ==
    Strings(ValidatorChars, MaxLen) \cup KnownValues \cup {LongNumber}
        \cup {<<"F", "I", "2", "1">> \o [i \in 1..14 |-> "Z"]}

InitValid == Idle(ValidatorInputs)

\* the caller validates the value it holds with validator f
CallValidator(f) ==
    /\ fn = ""
    /\ fn' = f
    /\ out' = ApplyValidator(f, arg)
    /\ UNCHANGED <<arg, opt, from, log>>

ValidateIban == CallValidator("iban_validator")
ValidateBic == CallValidator("bic_validator")
ValidatePhone == CallValidator("phone_validator")
ValidateEmail == CallValidator("email_validator")
ValidatePassport == CallValidator("passport_validator")
ValidateCountryCode == CallValidator("country_code_validator")
ValidateFiSsn == CallValidator("fi_ssn_validator")
ValidateSeSsn == CallValidator("se_ssn_validator")
ValidateFiCompanyOrgId == CallValidator("fi_company_org_id_validator")
ValidateFiPaymentReference == CallValidator("fi_payment_reference_validator")
ValidateIsoPaymentReference == CallValidator("iso_payment_reference_validator")

NextValid ==
    \/ ValidateIban \/ ValidateBic \/ ValidatePhone \/ ValidateEmail
    \/ ValidatePassport \/ ValidateCountryCode \/ ValidateFiSsn \/ ValidateSeSsn
    \/ ValidateFiCompanyOrgId \/ ValidateFiPaymentReference
    \/ ValidateIsoPaymentReference

SpecValid == InitValid /\ [][NextValid]_vars

\* C6: a validator either returns silently or raises the validation error
ValidatorsRaiseOnlyValidationError ==
    fn \in ValidatorNames => (out = Return(NoneVal) \/ out.exc = "ValidationError")

----------------------------------------------------------------------------
(* Swedish personal identification numbers *)

\* jutil/tests.py test_se_ssn: the nine digits before the check digit
SeSsnBases == { <<"8", "1", "1", "2", "2", "8", "9", "8", "7">>,
                <<"6", "7", "0", "9", "1", "9", "9", "5", "3">> }

\* each base with one position set to each digit
SeSsnNines ==
    {[b EXCEPT ![i] = DigitChar(d)] : b \in SeSsnBases, i \in 1..9, d \in 0..9}

\* the ways a caller writes nine digits n and a last character c
SeSsnWritings(n, c) ==
    LET date == Slice(n, 0, 6)
        serial == Slice(n, 6, 9)
    IN  { date \o <<"-">> \o serial \o c,
          date \o serial \o c,
          date \o <<"+">> \o serial \o c,
          date \o <<"-", "-">> \o serial \o c,
          <<" ">> \o date \o <<" ", "-", "a">> \o serial \o c \o <<"x">>,
          Slice(n, 0, 5) \o <<"-">> \o Slice(n, 5, 9) \o c,
          date \o <<"-">> \o serial \o c \o c,
          <<"1", "9">> \o date \o <<"-">> \o serial \o c,
          date \o <<"-">> \o serial }

SeSsnInputs ==
    UNION {SeSsnWritings(n, <<DigitChar(d)>>) : n \in SeSsnNines, d \in 0..9}

InitSeSsn == Idle(SeSsnInputs)

\* the caller validates the filtered number
ValidateFilteredSeSsn ==
    /\ fn = "se_ssn_filter"
    /\ Returned(out)
    /\ fn' = "se_ssn_validator"
    /\ arg' = out.value
    /\ from' = "se_ssn_filter"
    /\ out' = se_ssn_validator(out.value)
    /\ UNCHANGED <<opt, log>>

NextSeSsn == ValidateSeSsn \/ SeSsnFilter \/ ValidateFilteredSeSsn

SpecSeSsn == InitSeSsn /\ [][NextSeSsn]_vars

\* the digit sum of what the digit d at 0-based position i contributes
LuhnContribution(d, i) ==
    LET c == IF i \in {0, 2, 4, 6, 8} THEN 2 * d ELSE d
    IN  (c \div 10) + (c % 10)

\* six digits, a dash, four digits
SeSsnShape(v) ==
    /\ Len(v) = 11
    /\ v[7] = "-"
    /\ \A i \in (1..11) \ {7} : v[i] \in Digits

\* the ten digits of v pass the Luhn check
LuhnHolds(v) ==
    LET ds == SelectSeq(v, LAMBDA ch : ch \in Digits)
        sum == LuhnContribution(DigitVal(ds[1]), 0) + LuhnContribution(DigitVal(ds[2]), 1)
             + LuhnContribution(DigitVal(ds[3]), 2) + LuhnContribution(DigitVal(ds[4]), 3)
             + LuhnContribution(DigitVal(ds[5]), 4) + LuhnContribution(DigitVal(ds[6]), 5)
             + LuhnContribution(DigitVal(ds[7]), 6) + LuhnContribution(DigitVal(ds[8]), 7)
             + LuhnContribution(DigitVal(ds[9]), 8)
    IN  DigitVal(ds[10]) = (10 - (sum % 10)) % 10

\* C7: se_ssn_validator accepts exactly the inputs whose filtered form is six
\* digits, a dash and four digits that pass the Luhn check, and fails every
\* other input with invalid_ssn
SeSsnAcceptedIffLuhn ==
    fn = "se_ssn_validator" =>
        LET v == se_ssn_filter(arg).value
        IN  IF SeSsnShape(v) /\ LuhnHolds(v) THEN out = Return(NoneVal)
            ELSE out = ValidationError("invalid_ssn")

\* a number written with noise around it was accepted
SeSsnAcceptedIffLuhnWitness ==
    /\ fn = "se_ssn_validator"
    /\ from = "caller"
    /\ Len(arg) > 11
    /\ arg[1] = " "
    /\ out = Return(NoneVal)

----------------------------------------------------------------------------
(* Finnish personal identification numbers *)

ValueError == Raise("ValueError", "")

\* the table of fi_ssn_generator with the letters in alphabet order
FiSsnGeneratorDigitsAlphabet(d) == IF d >= 10 /\ d <= 30 THEN <<Chr(55 + d)>> ELSE IntToStr(d)

\* digits.get(d, str(d)) in fi_ssn_generator
FiSsnGeneratorDigits(d) == IF d >= 10 /\ d <= 30 THEN <<FiSsnLetters[d - 9]>> ELSE IntToStr(d)

\* draw holds what the four randint calls return
fi_ssn_generator(min_year, max_year, draw) ==
    IF ~(1800 <= min_year /\ min_year < 2100) THEN ValidationError("")
    ELSE IF ~(1800 <= max_year /\ max_year < 2100) THEN ValidationError("")
    ELSE IF min_year > max_year THEN ValueError
    ELSE LET year == draw.year
             sep == IF year < 1900 THEN "+" ELSE IF year >= 2000 THEN "A" ELSE "-"
             year2 == IF year < 1900 THEN year - 1800
                      ELSE IF year >= 2000 THEN year - 2000 ELSE year - 1900
             v == Format02(draw.day) \o Format02(draw.month) \o Format02(year2)
                    \o <<sep>> \o IntToStr(draw.suffix)
             d == DecimalRem(Slice(v, 0, 6) \o Slice(v, 7, 10), 31)
         IN  IF Raised(d) THEN d ELSE Return(v \o FiSsnGeneratorDigits(d.value))

\* jutil/tests.py test_fi_ssn_generator: day, month and year of written numbers
FiSsnDates == { <<"1", "1", "0", "3", "0", "5">>, <<"2", "3", "1", "2", "9", "8">>, <<"3", "1", "0", "2", "0", "0">>, <<"0", "0", "0", "0", "0", "0">> }

\* characters a caller writes between the date and the individual number
FiSsnSeparators == {"+", "-", "A", "0", "5", "9", "B", ":", "a"}

FiSsnSerials == { <<"2", "8", "3">>, <<"9", "6", "5">>, <<"0", "0", "0">> }

\* characters a caller writes last
FiSsnLastChars == {DigitChar(d) : d \in 0..9} \cup {FiSsnLetters[i] : i \in 1..21} \cup {"G", "-"}

FiSsnInputs ==
    {date \o <<s>> \o serial \o <<c>> :
        date \in FiSsnDates, s \in FiSsnSeparators, serial \in FiSsnSerials, c \in FiSsnLastChars}
    \cup { <<"9", "9", "9", "9", "-", "1", "2", "3", "F">>, <<"2", "7", "1", "1", "3", "8", "-", "6", "7", "0", "X">>, <<"0", "9", "0", "2", "2", "8", "+", "2", "5", "6", "X">>, <<" ", "1", "1", "0", "3", "0", "5", "+", "2", "8", "3", "x", " ">>, <<>> }

YearSamples == {1799, 1800, 1801, 1899, 1900, 1999, 2000, 2099, 2100}

\* randint(a, b): one of the sampled values in a..b, or an end of the range
RandInt(a, b, samples) == {a, b} \cup {n \in samples : a <= n /\ n <= b}

InitFiSsn ==
    /\ fn = ""
    /\ \/ arg \in FiSsnInputs /\ opt = NoOpt
       \/ arg = <<>> /\ opt \in [min_year : YearSamples, max_year : YearSamples]
    /\ out = Return(NoneVal)
    /\ from = "caller"
    /\ log = <<>>

\* the caller asks for a number born between the years it holds
FiSsnGenerator ==
    /\ fn = ""
    /\ opt # NoOpt
    /\ \E day \in RandInt(1, 28, {9, 10}), month \in RandInt(1, 12, {9, 10}),
          year \in RandInt(opt.min_year, opt.max_year, YearSamples),
          suffix \in RandInt(100, 999, {283, 500, 965}) :
        /\ fn' = "fi_ssn_generator"
        /\ log' = <<day, month, year, suffix>>
        /\ out' = fi_ssn_generator(opt.min_year, opt.max_year,
                      [day |-> day, month |-> month, year |-> year, suffix |-> suffix])
    /\ UNCHANGED <<arg, opt, from>>

\* the caller validates the number the generator returned
ValidateGeneratedFiSsn ==
    /\ fn = "fi_ssn_generator"
    /\ Returned(out)
    /\ fn' = "fi_ssn_validator"
    /\ arg' = out.value
    /\ from' = "fi_ssn_generator"
    /\ out' = fi_ssn_validator(out.value)
    /\ UNCHANGED <<opt, log>>

\* the caller validates the number it holds
FiSsnValidator ==
    /\ opt = NoOpt
    /\ ValidateFiSsn

NextFiSsn == FiSsnValidator \/ FiSsnGenerator \/ ValidateGeneratedFiSsn

SpecFiSsn == InitFiSsn /\ [][NextFiSsn]_vars

\* C8: fi_ssn_validator fails with invalid_ssn every input whose filtered
\* form has a 7th character other than '+', '-' or 'A'
FiSsnSeparatorChecked ==
    (fn = "fi_ssn_validator" /\ from = "caller") =>
        LET v == fi_ssn_filter(arg).value
        IN  (Len(v) < 7 \/ v[7] \notin {"+", "-", "A"}) => out = ValidationError("invalid_ssn")

SupportedYear(y) == 1800 <= y /\ y < 2100

\* C9: for supported years min_year <= max_year the generator returns 11
\* characters that fi_ssn_validator accepts, and for an unsupported min_year
\* or max_year it fails with a validation error
GeneratedFiSsnAccepted ==
    /\ (fn = "fi_ssn_generator" /\ SupportedYear(opt.min_year)
            /\ SupportedYear(opt.max_year) /\ opt.min_year <= opt.max_year) =>
            Returned(out) /\ Len(out.value) = 11
    /\ (fn = "fi_ssn_generator"
            /\ (~SupportedYear(opt.min_year) \/ ~SupportedYear(opt.max_year))) =>
            out.exc = "ValidationError"
    /\ (fn = "fi_ssn_validator" /\ from = "fi_ssn_generator") => out = Return(NoneVal)

\* a number generated for the 2000s with a letter after the tenth letter of
\* the table as check character was validated
GeneratedFiSsnAcceptedWitness ==
    /\ fn = "fi_ssn_validator"
    /\ from = "fi_ssn_generator"
    /\ arg[7] = "A"
    /\ arg[11] \in {"H", "Y"}
    /\ Returned(out)

----------------------------------------------------------------------------
(* Ages *)

\* None where a date is expected
NoDate == [none |-> TRUE]

IsLeap(y) == (y % 4 = 0 /\ y % 100 # 0) \/ y % 400 = 0

DaysInMonth(y, mo) ==
    IF mo = 2 THEN (IF IsLeap(y) THEN 29 ELSE 28)
    ELSE IF mo \in {4, 6, 9, 11} THEN 30 ELSE 31

\* datetime.date(year, month, day)
Date(y, mo, d) ==
    IF y >= 1 /\ y <= 9999 /\ mo >= 1 /\ mo <= 12 /\ d >= 1 /\ d <= DaysInMonth(y, mo)
    THEN Return([year |-> y, month |-> mo, day |-> d])
    ELSE ValueError

\* int(v) of a string of ASCII digits
RECURSIVE StrToInt(_)
StrToInt(v) == IF v = <<>> THEN 0 ELSE StrToInt(AllButLast(v)) * 10 + DigitVal(LastOne(v)[1])

fi_ssn_birthday(v0) ==
    LET f == fi_ssn_filter(v0)
        v == f.value
        valid == fi_ssn_validator(v)
        sep == v[7]
        year == StrToInt(Slice(v, 4, 6))
        month == StrToInt(Slice(v, 2, 4))
        day == StrToInt(Slice(v, 0, 2))
    IN  IF Raised(f) THEN f
        ELSE IF Raised(valid) THEN valid
        ELSE IF sep = "+" THEN Date(year + 1800, month, day)
        ELSE IF sep = "-" THEN Date(year + 1900, month, day)
        ELSE IF sep = "A" THEN Date(year + 2000, month, day)
        ELSE Date(year, month, day)

\* (a.month, a.day) < (b.month, b.day)
MonthDayLess(a, b) == a.month < b.month \/ (a.month = b.month /\ a.day < b.day)

\* the age that grows a day after the birthday
calculate_age_day_late(born, today, now) ==
    LET t == IF today = NoDate THEN now ELSE today
    IN  t.year - born.year - (IF ~MonthDayLess(born, t) THEN 1 ELSE 0)

\* now is what now().date() returns when today is missing
calculate_age(born, today, now) ==
    LET t == IF today = NoDate THEN now ELSE today
    IN  t.year - born.year - (IF MonthDayLess(t, born) THEN 1 ELSE 0)

fi_ssn_age(ssn, today, now) ==
    LET born == fi_ssn_birthday(ssn)
    IN  IF Raised(born) THEN born ELSE Return(calculate_age(born.value, today, now))

\* the day after d
NextDate(d) ==
    IF d.day < DaysInMonth(d.year, d.month) THEN [d EXCEPT !.day = d.day + 1]
    ELSE IF d.month < 12 THEN [d EXCEPT !.month = d.month + 1, !.day = 1]
    ELSE [year |-> d.year + 1, month |-> 1, day |-> 1]

DateLessEq(a, b) ==
    \/ a.year < b.year
    \/ a.year = b.year /\ (MonthDayLess(a, b) \/ (a.month = b.month /\ a.day = b.day))

\* years a person stays in the register
AgeYears == 2

\* days a caller follows one person
MaxDays == 3

BirthYears == {1899, 1996, 1998, 2000}

\* the dates of the calendar among the given years, months and days
Dates(years, months, days) ==
    {dt \in [year : years, month : months, day : days] :
        dt.day <= DaysInMonth(dt.year, dt.month)}

Birthdays == Dates(BirthYears, {2, 3, 12}, {1, 23, 28, 29, 31})

\* the dates a caller starts to ask on, for a person born in year y
StartDates(y) == Dates({y + k : k \in 0..AgeYears}, {1, 2, 3, 12}, {1, 22, 27, 28, 29, 31})

\* the check characters in the order of the remainders 0..30
FiSsnCheckChars == [d \in 0..9 |-> DigitChar(d)] @@ [d \in 10..30 |-> FiSsnLetters[d - 9]]

\* the number the register issues for a person born on b with individual number serial
WriteFiSsn(b, serial) ==
    LET sep == IF b.year < 1900 THEN "+" ELSE IF b.year < 2000 THEN "-" ELSE "A"
        nine == ((b.day * 100 + b.month) * 100 + (b.year % 100)) * 1000 + serial
    IN  Format02(b.day) \o Format02(b.month) \o Format02(b.year % 100) \o <<sep>>
            \o IntToStr(serial) \o <<FiSsnCheckChars[nine % 31]>>

AgeSerials == {965}

InitAge ==
    /\ fn = ""
    /\ \E b \in Birthdays, serial \in AgeSerials :
        /\ arg \in {WriteFiSsn(b, serial), [WriteFiSsn(b, serial) EXCEPT ![11] = "G"]}
        /\ \E d \in StartDates(b.year), given \in BOOLEAN :
            /\ DateLessEq(b, d)
            /\ opt = [born |-> b, today |-> IF given THEN d ELSE NoDate, now |-> d, days |-> 0]
    /\ out = Return(NoneVal)
    /\ from = "caller"
    /\ log = <<>>

\* the caller asks for the birthday of the number it holds
FiSsnBirthday ==
    /\ fn = ""
    /\ fn' = "fi_ssn_birthday"
    /\ out' = fi_ssn_birthday(arg)
    /\ UNCHANGED <<arg, opt, from, log>>

\* the caller asks for the age on the reference date
FiSsnAge ==
    /\ fn = ""
    /\ fn' = "fi_ssn_age"
    /\ out' = fi_ssn_age(arg, opt.today, opt.now)
    /\ UNCHANGED <<arg, opt, from, log>>

\* a day passes and the caller asks for the age again
AgeNextDay ==
    /\ fn = "fi_ssn_age"
    /\ opt.days < MaxDays
    /\ LET d == NextDate(opt.now)
       IN  /\ opt' = [opt EXCEPT !.now = d, !.days = opt.days + 1,
                                 !.today = IF opt.today = NoDate THEN NoDate ELSE d]
           /\ out' = fi_ssn_age(arg, opt'.today, d)
    /\ from' = "fi_ssn_age"
    /\ UNCHANGED <<fn, arg, log>>

NextAge == FiSsnBirthday \/ FiSsnAge \/ AgeNextDay

SpecAge == InitAge /\ [][NextAge]_vars

\* the number the caller holds is valid and a reference date is given
ValidSsnWithDate == fn = "fi_ssn_age" /\ Returned(fi_ssn_validator(arg)) /\ opt.today # NoDate

\* the age on date d of a person born on b, d on or after b
AgeOn(b, d) ==
    d.year - b.year
        - (IF d.month < b.month \/ (d.month = b.month /\ d.day < b.day) THEN 1 ELSE 0)

\* C10: for a valid number with birthday b and a reference date d on or after
\* b, fi_ssn_age is d.year - b.year, minus one when (d.month, d.day) is before
\* (b.month, b.day); it is one higher on the birthday than on the day before,
\* and it never decreases as d advances
FiSsnAgeByBirthday ==
    /\ [](ValidSsnWithDate => out = Return(AgeOn(opt.born, opt.today)))
    /\ [][(ValidSsnWithDate /\ AgeNextDay) =>
            /\ out'.value >= out.value
            /\ (opt'.today.month = opt.born.month /\ opt'.today.day = opt.born.day)
                    => out'.value = out.value + 1]_vars

\* the day passed into the twentieth birthday of the person of the tests
FiSsnAgeByBirthdayWitness ==
    /\ fn = "fi_ssn_age"
    /\ from = "fi_ssn_age"
    /\ arg = <<"2", "3", "1", "2", "9", "8", "-", "9", "6", "5", "X">>
    /\ opt.today = [year |-> 2000, month |-> 12, day |-> 23]
    /\ out = Return(2)

----------------------------------------------------------------------------
(* Finnish payment reference numbers *)

\* the longest reference a caller writes here
RefLen == 4

RefChars == {"0", "1", "7", "9", " ", "u"}

\* jutil/tests.py test_payment_reference, test_reference_number_validators
RefInputs ==
    Strings(RefChars, RefLen)
        \cup { <<"1", "0", "0">>, <<"8", "9", "1", "8", "2", "9", "3", "2", "u">>, <<"0", "0", "0", "0", "0", "0", "2">>, <<"3", "0", "2", "3", "0">>, <<"2", "0", "2", "1", "9">>, <<" ", "0", "0", " ", "3", "0", " ", "2", "2", "9">> }

InitRef == Idle(RefInputs)

\* the caller asks for the reference number of the number it holds
FiPaymentReferenceNumber ==
    /\ fn = ""
    /\ fn' = "fi_payment_reference_number"
    /\ out' = fi_payment_reference_number(arg)
    /\ UNCHANGED <<arg, opt, from, log>>

\* the caller validates the reference number it was given
ValidateReferenceNumber ==
    /\ fn = "fi_payment_reference_number"
    /\ Returned(out)
    /\ fn' = "fi_payment_reference_validator"
    /\ arg' = out.value
    /\ from' = "fi_payment_reference_number"
    /\ out' = fi_payment_reference_validator(out.value)
    /\ UNCHANGED <<opt, log>>

\* the caller validates the reference number with another last digit
ValidateAlteredReferenceNumber ==
    /\ fn = "fi_payment_reference_number"
    /\ Returned(out)
    /\ \E d \in Digits \ {out.value[Len(out.value)]} :
        /\ arg' = AllButLast(out.value) \o <<d>>
        /\ out' = fi_payment_reference_validator(AllButLast(out.value) \o <<d>>)
    /\ fn' = "fi_payment_reference_validator"
    /\ from' = "altered"
    /\ UNCHANGED <<opt, log>>

NextRef ==
    \/ FiPaymentReferenceNumber
    \/ ValidateFiPaymentReference
    \/ ValidateReferenceNumber
    \/ ValidateAlteredReferenceNumber

SpecRef == InitRef /\ [][NextRef]_vars

\* the digits of n without whitespace and leading zeros
RefDigits(n) == LStripZeros(SelectSeq(n, LAMBDA ch : ch # " "))

\* the sum of the last k digits of w, each times its weight: 7 for the last
\* digit, 3 for the one before it, 1 for the one before that, and 7 again
RECURSIVE WeightedFromLast(_, _)
WeightedFromLast(w, k) ==
    IF k = 0 THEN 0
    ELSE WeightedFromLast(w, k - 1)
            + DigitVal(w[Len(w) - k + 1]) * (CASE k % 3 = 1 -> 7 [] k % 3 = 2 -> 3 [] OTHER -> 1)

\* C11: for digits n with at least three left after whitespace and leading
\* zeros, fi_payment_reference_number returns those digits and the check digit
\* of the weights 7, 3, 1; the validator accepts the result and fails it with
\* any other last digit
ReferenceNumberChecked ==
    /\ (/\ fn = "fi_payment_reference_number"
        /\ \A i \in 1..Len(arg) : arg[i] \in Digits \cup {" "}
        /\ Len(RefDigits(arg)) >= 3) =>
            LET w == RefDigits(arg)
                check == (10 - (WeightedFromLast(w, Len(w)) % 10)) % 10
            IN  out = Return(w \o <<DigitChar(check)>>)
    /\ (fn = "fi_payment_reference_validator" /\ from = "fi_payment_reference_number")
            => out = Return(NoneVal)
    /\ (fn = "fi_payment_reference_validator" /\ from = "altered")
            => out.exc = "ValidationError"

\* the reference of a number written with a space and leading zeros was
\* rejected with another last digit
ReferenceNumberCheckedWitness ==
    /\ fn = "fi_payment_reference_validator"
    /\ from = "altered"
    /\ arg = <<"3", "0", "2", "2", "9", "1">>
    /\ out.exc = "ValidationError"

----------------------------------------------------------------------------
(* Finnish company organization ids *)

\* the generator's loop over the numbers randint returns, from draw i on:
\* the first number whose remainder is at least 2 ends it; no result while
\* every number so far was refused
RECURSIVE OrgIdLoop(_, _)
OrgIdLoop(draws, i) ==
    IF i > Len(draws) THEN [kind |-> "running", value |-> <<>>, exc |-> "", code |-> ""]
    ELSE LET v == draws[i]
             remainder == OrgIdSum(v) % 11
         IN  IF remainder < 2 THEN OrgIdLoop(draws, i + 1)
             ELSE Return(AllButLast(v) \o <<"-">> \o IntToStr(11 - remainder))

\* the generator that takes the first number drawn, whatever its remainder
fi_company_org_id_generator_first_draw(draws) ==
    LET v == draws[1]
    IN  Return(AllButLast(v) \o <<"-">> \o IntToStr(11 - (OrgIdSum(v) % 11)))

\* draws holds what the randint calls return, in order
fi_company_org_id_generator(draws) == OrgIdLoop(draws, 1)

\* the numbers randint draws before the generator must have returned
MaxDraws == 2

\* jutil/tests.py test_org_id_fi: the eight digits of an id
OrgIdBase == <<"2", "0", "8", "4", "0", "6", "9", "9">>

\* str(randint(11111111, 99999999)): the base with one of its first seven
\* digits set to each digit, and the ends of the range
OrgIdDraws ==
    {s \in {[OrgIdBase EXCEPT ![i] = DigitChar(d)] : i \in 1..7, d \in 0..9} :
        StrToInt(s) >= 11111111}
    \cup { <<"1", "1", "1", "1", "1", "1", "1", "1">>, <<"9", "9", "9", "9", "9", "9", "9", "9">> }

\* the runs of the loop: numbers refused, then a number taken
OrgIdRuns ==
    {r \in UNION {[1..k -> OrgIdDraws] : k \in 1..MaxDraws} :
        /\ \A i \in 1..(Len(r) - 1) : OrgIdSum(r[i]) % 11 < 2
        /\ OrgIdSum(r[Len(r)]) % 11 >= 2}

OrgIdInputs ==
    { <<"2", "0", "8", "4", "0", "6", "9", "-", "9">>, <<"2", "0", "8", "4", "0", "6", "9", "-", "1">>, <<"S", "E", "2", "0", "8", "4", "0", "6", "9", "-", "1">>, <<"F", "I", "0", "1", "0", "9", "8", "2", "3", "0">>, <<"F", "I", "-", "0", "1", "0", "9", "8", "2", "3", "0">>,
      <<"0", "1", "0", "9", "8", "2", "3", "-", "0">>, <<"0", "1", "0", "9", "8", "2", "3", "0">>, <<" ", "2", "0", "8", "4", "0", "6", "9", " ", "9">>, <<>> }

InitOrgId == Idle(OrgIdInputs)

\* the caller asks for an organization id
FiCompanyOrgIdGenerator ==
    /\ fn = ""
    /\ arg = <<>>
    /\ \E draws \in OrgIdRuns :
        /\ log' = draws
        /\ out' = fi_company_org_id_generator(draws)
    /\ fn' = "fi_company_org_id_generator"
    /\ UNCHANGED <<arg, opt, from>>

\* the caller validates the id the generator returned
ValidateGeneratedOrgId ==
    /\ fn = "fi_company_org_id_generator"
    /\ Returned(out)
    /\ fn' = "fi_company_org_id_validator"
    /\ arg' = out.value
    /\ from' = "fi_company_org_id_generator"
    /\ out' = fi_company_org_id_validator(out.value)
    /\ UNCHANGED <<opt, log>>

NextOrgId == ValidateFiCompanyOrgId \/ FiCompanyOrgIdGenerator \/ ValidateGeneratedOrgId

SpecOrgId == InitOrgId /\ [][NextOrgId]_vars

\* the weights 7, 9, 10, 5, 8, 4, 2 times the first seven digits of v
OrgIdWeighted(v) ==
    LET w == <<7, 9, 10, 5, 8, 4, 2>>
        d == [i \in 1..7 |-> DigitVal(v[i]) * w[i]]
    IN  d[1] + d[2] + d[3] + d[4] + d[5] + d[6] + d[7]

\* C12: the generator returns seven digits, a dash and a check digit, the
\* digits being those of a drawn number whose weighted sum has a remainder of
\* at least 2 modulo 11 and the check digit 11 minus that remainder; the
\* validator accepts what it returned
GeneratedOrgIdAccepted ==
    /\ fn = "fi_company_org_id_generator" =>
            /\ Returned(out)
            /\ Len(out.value) = 9
            /\ \A i \in 1..7 : out.value[i] \in Digits
            /\ out.value[8] = "-"
            /\ out.value[9] \in Digits
            /\ OrgIdWeighted(out.value) % 11 >= 2
            /\ DigitVal(out.value[9]) = 11 - (OrgIdWeighted(out.value) % 11)
            /\ \E i \in 1..Len(log) : AllButLast(log[i]) = Slice(out.value, 0, 7)
    /\ (fn = "fi_company_org_id_validator" /\ from = "fi_company_org_id_generator")
            => out = Return(NoneVal)

\* an id was validated that the generator returned after it refused a number
GeneratedOrgIdAcceptedWitness ==
    /\ fn = "fi_company_org_id_validator"
    /\ from = "fi_company_org_id_generator"
    /\ Len(log) = 2
    /\ AllButLast(log[2]) = Slice(arg, 0, 7)
    /\ Returned(out)

----------------------------------------------------------------------------
(* Bank lookups *)

\* jutil/bank_const_be.py: account prefixes of the tests, and one whose BIC
\* has no name
BE_BIC_BY_ACCOUNT_NUMBER ==
    (<<"2", "7", "0">> :> "GEBABEBB") @@ (<<"4", "6", "5">> :> "KREDBEBB") @@ (<<"0", "0", "0">> :> "BPOTBEB1")
        @@ (<<"9", "9", "9">> :> "XXXXBEBB")

BE_BANK_NAME_BY_BIC ==
    ("GEBABEBB" :> "BNP Paribas Fortis") @@ ("KREDBEBB" :> "KBC Bank")
        @@ ("BPOTBEB1" :> "bpost bank")

\* jutil/bank_const_fi.py: the prefix of the tests, and one whose BIC has no name
FI_BIC_BY_ACCOUNT_NUMBER == (<<"4", "7", "3">> :> "POPFFI22") @@ (<<"9", "9", "9">> :> "XXXXFIHH")

FI_BANK_NAME_BY_BIC == ("POPFFI22" :> "POP-Pankki")

\* jutil/bank_const_dk.py: clearing codes of the tests
DK_BANK_CLEARING_MAP == (<<"0", "0", "4", "0">> :> "Nordea") @@ (<<"8", "1", "1", "4">> :> "Nykredit Bank") @@ (<<"2", "0", "0", "0">> :> "Nordea")

\* rows of (name, begin, end, account digits)
SE_BANK_CLEARING_LIST ==
    << <<"Nordea AB", <<"1", "1", "0", "0">>, <<"1", "1", "9", "9">>, 7>>,
       <<"Danske Bank", <<"1", "2", "0", "0">>, <<"1", "3", "9", "9">>, 7>>,
       <<"Nordea AB", <<"1", "4", "0", "1">>, <<"2", "0", "9", "9">>, 7>>,
       <<"U+00C5landsbanken Abp", <<"2", "3", "0", "0">>, <<"2", "3", "9", "9">>, 7>>,
       <<"Danske Bank", <<"2", "4", "0", "0">>, <<"2", "4", "9", "9">>, 7>>,
       <<"Nordea AB", <<"3", "0", "0", "0">>, <<"3", "2", "9", "9">>, 7>>,
       <<"Nordea AB Personkonto", <<"3", "3", "0", "0">>, <<"3", "3", "0", "0">>, 10>>,
       <<"Nordea AB", <<"3", "3", "0", "1">>, <<"3", "3", "9", "9">>, 7>>,
       <<"LU+00E4nsfU+00F6rsU+00E4kringar Bank AB", <<"3", "4", "0", "0">>, <<"3", "4", "0", "9">>, 7>>,
       <<"Nordea AB", <<"3", "4", "6", "0">>, <<"3", "5", "9", "9">>, 7>>,
       <<"Nordea AB", <<"3", "6", "0", "0">>, <<"3", "9", "9", "9">>, 7>>,
       <<"Nordea AB", <<"4", "0", "0", "0">>, <<"4", "9", "9", "9">>, 7>>,
       <<"SEB", <<"5", "0", "0", "0">>, <<"5", "9", "9", "9">>, 7>>,
       <<"Handelsbanken", <<"6", "0", "0", "0">>, <<"6", "9", "9", "9">>, 9>>,
       <<"Swedbank", <<"7", "0", "0", "0">>, <<"7", "9", "9", "9">>, 7>>,
       <<"Swedbank", <<"8", "0", "0", "0">>, <<"8", "9", "9", "9">>, 8>>,
       <<"LU+00E4nsfU+00F6rsU+00E4kringar Bank AB", <<"9", "0", "2", "0">>, <<"9", "0", "2", "9">>, 7>>,
       <<"Citibank", <<"9", "0", "4", "0">>, <<"9", "0", "4", "9">>, 7>>,
       <<"LU+00E4nsfU+00F6rsU+00E4kringar Bank AB", <<"9", "0", "6", "0">>, <<"9", "0", "6", "9">>, 7>>,
       <<"Royal Bank of Scotland", <<"9", "0", "9", "0">>, <<"9", "0", "9", "9">>, 7>>,
       <<"Nordnet Bank", <<"9", "1", "0", "0">>, <<"9", "1", "0", "9">>, 7>>,
       <<"SEB", <<"9", "1", "2", "0">>, <<"9", "1", "2", "4">>, 7>>,
       <<"SEB", <<"9", "1", "3", "0">>, <<"9", "1", "4", "9">>, 7>>,
       <<"Skandiabanken AB", <<"9", "1", "5", "0">>, <<"9", "1", "6", "9">>, 7>>,
       <<"IKANO Banken AB", <<"9", "1", "7", "0">>, <<"9", "1", "7", "9">>, 7>>,
       <<"Danske Bank", <<"9", "1", "8", "0">>, <<"9", "1", "8", "9">>, 7>>,
       <<"Den Norske Bank", <<"9", "1", "9", "0">>, <<"9", "1", "9", "9">>, 7>>,
       <<"Marginalen Bank", <<"9", "2", "3", "0">>, <<"9", "2", "3", "9">>, 7>>,
       <<"SBAB Bank AB", <<"9", "2", "5", "0">>, <<"9", "2", "5", "9">>, 7>>,
       <<"ICA Banken AB", <<"9", "2", "7", "0">>, <<"9", "2", "7", "9">>, 7>>,
       <<"Resurs Bank AB", <<"9", "2", "8", "0">>, <<"9", "2", "8", "9">>, 7>>,
       <<"Landshypotek AB", <<"9", "3", "9", "0">>, <<"9", "3", "9", "9">>, 7>>,
       <<"Forex Bank AB", <<"9", "4", "0", "0">>, <<"9", "4", "4", "9">>, 7>>,
       <<"Santander Consumer Bank AS", <<"9", "4", "6", "0">>, <<"9", "4", "6", "9">>, 7>>,
       <<"BNP Paribas Fortis SA/NV", <<"9", "4", "7", "0">>, <<"9", "4", "7", "0">>, 7>>,
       <<"Nordea AB", <<"9", "5", "0", "0">>, <<"9", "5", "4", "9">>, 10>>,
       <<"Avanza Bank", <<"9", "5", "5", "0">>, <<"9", "5", "6", "9">>, 7>>,
       <<"Sparbanken Syd", <<"9", "5", "7", "0">>, <<"9", "5", "7", "9">>, 8>>,
       <<"Erik Penser Bankaktiebolag", <<"9", "5", "9", "0">>, <<"9", "5", "9", "9">>, 7>>,
       <<"LU+00E5n og Spar Bank Sverige", <<"9", "6", "3", "0">>, <<"9", "6", "3", "9">>, 7>>,
       <<"Nordax Bank AB", <<"9", "6", "4", "0">>, <<"9", "6", "4", "9">>, 7>>,
       <<"Med Mera Bank AB", <<"9", "6", "5", "0">>, <<"9", "6", "5", "9">>, 7>>,
       <<"Svea Bank", <<"9", "6", "6", "0">>, <<"9", "6", "6", "9">>, 7>>,
       <<"JAK Medlemsbank", <<"9", "6", "7", "0">>, <<"9", "6", "7", "9">>, 7>>,
       <<"Bluestep Finans AB", <<"9", "6", "8", "0">>, <<"9", "6", "8", "9">>, 7>>,
       <<"Ekobanken", <<"9", "7", "0", "0">>, <<"9", "7", "0", "9">>, 7>>,
       <<"RiksgU+00E4lden", <<"9", "8", "8", "0">>, <<"9", "8", "8", "9">>, 7>>,
       <<"Nordea AB", <<"9", "9", "6", "0">>, <<"9", "9", "6", "9">>, 10>> >>

KeyError == Raise("KeyError", "")

\* a <= b for Python str
RECURSIVE StrLessEq(_, _)
StrLessEq(a, b) ==
    IF a = <<>> THEN TRUE
    ELSE IF b = <<>> THEN FALSE
    ELSE IF Head(a) = Head(b) THEN StrLessEq(Tail(a), Tail(b))
    ELSE Ord(Head(a)) < Ord(Head(b))

be_iban_bank_info(v0) ==
    LET v == iban_filter(v0).value
        key == Slice(v, 4, 7)
    IN  IF key \notin DOMAIN BE_BIC_BY_ACCOUNT_NUMBER THEN Return(<<"", "">>)
        ELSE LET bic == BE_BIC_BY_ACCOUNT_NUMBER[key]
             IN  IF bic \in DOMAIN BE_BANK_NAME_BY_BIC
                 THEN Return(<<bic, BE_BANK_NAME_BY_BIC[bic]>>)
                 ELSE KeyError

dk_clearing_code_bank_name(v0) ==
    LET f == iban_filter(v0).value
        v == IF Slice(f, 0, 2) = <<"D", "K">> THEN SliceFrom(f, 4) ELSE f
        key == Slice(v, 0, 4)
    IN  IF key \in DOMAIN DK_BANK_CLEARING_MAP THEN DK_BANK_CLEARING_MAP[key] ELSE ""

dk_iban_bank_info(v) == Return(<<"", dk_clearing_code_bank_name(v)>>)

fi_iban_bank_info(v0) ==
    LET v == iban_filter(v0).value
        key == Slice(v, 4, 7)
    IN  IF key \notin DOMAIN FI_BIC_BY_ACCOUNT_NUMBER THEN Return(<<"", "">>)
        ELSE LET bic == FI_BIC_BY_ACCOUNT_NUMBER[key]
             IN  Return(<<bic, IF bic \in DOMAIN FI_BANK_NAME_BY_BIC
                               THEN FI_BANK_NAME_BY_BIC[bic] ELSE "">>)

\* the first row whose range holds the clearing code, or ("", None)
se_clearing_code_bank_info(account_number) ==
    LET f == iban_filter(account_number).value
        v == IF Slice(f, 0, 2) = <<"S", "E">> THEN SliceFrom(f, 4) ELSE f
        clearing == Slice(v, 0, 4)
        hits == {i \in 1..Len(SE_BANK_CLEARING_LIST) :
                    /\ StrLessEq(SE_BANK_CLEARING_LIST[i][2], clearing)
                    /\ StrLessEq(clearing, SE_BANK_CLEARING_LIST[i][3])}
    IN  IF hits = {} THEN Return(<<"", NoneVal>>)
        ELSE LET i == CHOOSE h \in hits : \A k \in hits : h <= k
             IN  Return(<<SE_BANK_CLEARING_LIST[i][1], SE_BANK_CLEARING_LIST[i][4]>>)

se_iban_bank_info(v) == Return(<<"", se_clearing_code_bank_info(v).value[1]>>)

\* globals().get(prefix.lower() + "_iban_bank_info") and the call of it
iban_bank_info(v0) ==
    LET v == iban_filter(v0).value
        prefix == StrLower(Slice(v, 0, 2))
    IN  CASE prefix = <<"b", "e">> -> be_iban_bank_info(v)
          [] prefix = <<"d", "k">> -> dk_iban_bank_info(v)
          [] prefix = <<"f", "i">> -> fi_iban_bank_info(v)
          [] prefix = <<"s", "e">> -> se_iban_bank_info(v)
          [] OTHER -> Return(<<"", "">>)

iban_bic(v) ==
    LET info == iban_bank_info(v)
    IN  IF Raised(info) THEN info ELSE Return(info.value[1])

\* jutil/tests.py test_bank_info, test_se_banks, test_dk_banks: the country
\* and check digits of an account as typed
BankHeads == { <<"F", "I", "8", "8">>, <<"B", "E", "7", "5">>, <<"b", "e", "7", "5">>, <<"D", "K", "5", "0">>, <<"S", "E", "7", "9">>, <<"I", "S", "1", "4">>, <<"X", "X", "0", "0">>, <<"B", "E", " ", "7">>, <<"1", "2">>, <<>> }

\* the characters after the check digits
BankBodies ==
    { <<"4", "7", "3", "0">>, <<"2", "7", "0", "1">>, <<"4", "6", "5", "0">>, <<"0", "0", "0", "1">>, <<"9", "9", "9", "0">>, <<"0", "0", "4", "0">>, <<"1", "2", "0", "0">>, <<"6", "7", "8", "9">>, <<"9", "5", "7", "0">>, <<"1", "0", "0", "0">>,
      <<"2", "7">>, <<" ", "2", "7", "0", " ">>, <<>> }

BankInputs ==
    {h \o b : h \in BankHeads, b \in BankBodies}
        \cup { <<"F", "I", "8", "8", "4", "7", "3", "0", "4", "7", "2", "0", "0", "1", "7", "5", "1", "7">>, <<"B", "E", "7", "5", "2", "7", "0", "1", "8", "7", "5", "9", "2", "7", "1", "0">>, <<"S", "E", "7", "9", "1", "2", "0", "0", "1", "2", "0", "0", "0", "1", "2", "3", "5", "0", "2", "2", "3", "0", "3", "5">>,
               <<"D", "K", "5", "0", " ", "0", "0", "4", "0", " ", "0", "4", "4", "0", " ", "1", "1", "6", "2", " ", "4", "3">>, <<"B">>, NoneVal }

InitBank == Idle(BankInputs)

\* the caller looks up the bank of the account it holds
IbanBankInfo ==
    /\ fn = ""
    /\ fn' = "iban_bank_info"
    /\ out' = iban_bank_info(arg)
    /\ UNCHANGED <<arg, opt, from, log>>

\* the caller looks up the BIC of the account it holds
IbanBic ==
    /\ fn = ""
    /\ fn' = "iban_bic"
    /\ out' = iban_bic(arg)
    /\ UNCHANGED <<arg, opt, from, log>>

\* the caller looks up the bank of a Swedish clearing code
SeClearingCodeBankInfo ==
    /\ fn = ""
    /\ fn' = "se_clearing_code_bank_info"
    /\ out' = se_clearing_code_bank_info(arg)
    /\ UNCHANGED <<arg, opt, from, log>>

NextBank == IbanBankInfo \/ IbanBic \/ SeClearingCodeBankInfo

SpecBank == InitBank /\ [][NextBank]_vars

\* the countries that have a lookup function
BankCountries == { <<"B", "E">>, <<"D", "K">>, <<"F", "I">>, <<"S", "E">> }

----------------------------------------------------------------------------
(* Accounts of an expected country *)

\* validate_country_iban that compares the country before filtering
validate_country_iban_unfiltered(v0, country) ==
    IF Slice(v0, 0, 2) # country THEN ValidationError("invalid_iban")
    ELSE iban_validator(iban_filter(v0).value)

validate_country_iban(v0, country) ==
    LET v == iban_filter(v0).value
    IN  IF Slice(v, 0, 2) # country THEN ValidationError("invalid_iban")
        ELSE iban_validator(v)

se_iban_validator(v) == validate_country_iban(v, <<"S", "E">>)

fi_iban_validator(v) == validate_country_iban(v, <<"F", "I">>)

\* jutil/tests.py test_validate_country_iban, test_se_banks
ExpectedCountries == { <<"F", "I">>, <<"S", "E">>, <<"B", "E">>, <<"X", "X">>, <<"f", "i">> }

CountryIbanInputs ==
    IbanInputs \cup { <<"S", "E", "4", "5", " ", "5", "0", "0", "0", " ", "0", "0", "0", "0", " ", "0", "5", "8", "3", " ", "9", "8", "2", "5", " ", "7", "4", "6", "6">>, <<"X", "X", "4", "5", " ", "5", "0", "0", "0", " ", "0", "0", "0", "0", " ", "0", "5", "8", "3", " ", "9", "8", "2", "5", " ", "7", "4", "6", "6">>,
                      <<"S", "E", "4", "5", " ", "5", "0", "0", "0", " ", "0", "0", "0", "0", " ", "0", "5", "8", "3", " ", "9", "8", "2", "5">>, <<"F", "I", "1", "5", "6", "1", "6", "5", "1", "5", "6", "1", "6", "1", "5", "6">>, <<"s", "e", "4", "5", "5", "0", "0", "0", "0", "0", "0", "0", "0", "5", "8", "3", "9", "8", "2", "5", "7", "4", "6", "6">> }

InitCountryIban ==
    /\ fn = ""
    /\ arg \in CountryIbanInputs
    /\ opt \in [country : ExpectedCountries]
    /\ out = Return(NoneVal)
    /\ from = "caller"
    /\ log = <<>>

\* the caller validates the account it holds for the country it expects
ValidateCountryIban ==
    /\ fn = ""
    /\ fn' = "validate_country_iban"
    /\ out' = validate_country_iban(arg, opt.country)
    /\ UNCHANGED <<arg, opt, from, log>>

\* the caller validates the account it holds as a Swedish account
SeIbanValidator ==
    /\ fn = ""
    /\ fn' = "se_iban_validator"
    /\ opt' = [country |-> <<"S", "E">>]
    /\ out' = se_iban_validator(arg)
    /\ UNCHANGED <<arg, from, log>>

\* the caller validates the account it holds as a Finnish account
FiIbanValidator ==
    /\ fn = ""
    /\ fn' = "fi_iban_validator"
    /\ opt' = [country |-> <<"F", "I">>]
    /\ out' = fi_iban_validator(arg)
    /\ UNCHANGED <<arg, from, log>>

NextCountryIban == ValidateCountryIban \/ SeIbanValidator \/ FiIbanValidator

SpecCountryIban == InitCountryIban /\ [][NextCountryIban]_vars

\* the account as filtered: upper case, letters and digits only
FilteredAccount == iban_filter(arg).value

\* C14: validate_country_iban succeeds exactly when the filtered account
\* starts with the expected country and iban_validator accepts it; another
\* prefix, registered or not, fails with invalid_iban, and so does an empty input
CountryIbanChecked ==
    fn \in {"validate_country_iban", "se_iban_validator", "fi_iban_validator"} =>
        /\ Returned(out) <=>
              /\ Slice(FilteredAccount, 0, 2) = opt.country
              /\ Returned(iban_validator(FilteredAccount))
        /\ Slice(FilteredAccount, 0, 2) # opt.country => out = ValidationError("invalid_iban")
        /\ FilteredAccount = <<>> => out = ValidationError("invalid_iban")

\* a Swedish account typed with spaces passed for Sweden
CountryIbanCheckedWitness ==
    /\ fn = "validate_country_iban"
    /\ opt.country = <<"S", "E">>
    /\ Len(arg) > 24
    /\ Returned(out)

----------------------------------------------------------------------------
(* Unsupported countries *)

----------------------------------------------------------------------------
(* Phone numbers *)

\* C16: the result of phone_filter holds only digits and '+', and a '+' only
\* as its first character
PhoneFilterLeadingPlus ==
    (fn = "phone_filter" /\ Returned(out)) =>
        \A i \in 1..Len(out.value) :
            /\ out.value[i] \in Digits \cup {"+"}
            /\ out.value[i] = "+" => i = 1

----------------------------------------------------------------------------
(* Error codes *)

\* the codes of the error taxonomy
ErrorCodes ==
    { "invalid_iban", "invalid_bic", "invalid_phone", "invalid_email", "invalid_passport",
      "invalid_country_code", "invalid_ssn", "invalid_company_org_id",
      "invalid_payment_reference" }

\* C17: every validation error of a validator carries a code of the taxonomy,
\* and those of the payment reference validators carry invalid_payment_reference
FailuresCarryCode ==
    (fn \in ValidatorNames /\ out.exc = "ValidationError") =>
        /\ out.code \in ErrorCodes
        /\ fn \in {"fi_payment_reference_validator", "iso_payment_reference_validator"}
                => out.code = "invalid_payment_reference"

----------------------------------------------------------------------------
(* ISO creditor references *)

\* C18: every input iso_payment_reference_validator accepts is, without its
\* whitespace, RF, two check digits and at least one more character
IsoReferenceHasPrefix ==
    (fn = "iso_payment_reference_validator" /\ Returned(out)) =>
        LET v == SelectSeq(arg, LAMBDA ch : ~IsSpace(ch))
        IN  /\ Len(v) >= 5
            /\ v[1] = "R"
            /\ v[2] = "F"
            /\ v[3] \in Digits
            /\ v[4] \in Digits

----------------------------------------------------------------------------
(* Months *)

OverflowError == Raise("OverflowError", "")

\* the day before d
PrevDate(d) ==
    IF d.day > 1 THEN [d EXCEPT !.day = d.day - 1]
    ELSE IF d.month > 1
    THEN [d EXCEPT !.month = d.month - 1, !.day = DaysInMonth(d.year, d.month - 1)]
    ELSE [d EXCEPT !.year = d.year - 1, !.month = 12, !.day = 31]

\* d + timedelta(days=k) for a date d, k positive or negative
RECURSIVE ShiftDays(_, _)
ShiftDays(d, k) ==
    IF k = 0 THEN d
    ELSE IF k > 0
    THEN LET left == DaysInMonth(d.year, d.month) - d.day
         IN  IF k <= left THEN [d EXCEPT !.day = d.day + k]
             ELSE ShiftDays(NextDate([d EXCEPT !.day = d.day + left]), k - left - 1)
    ELSE IF -k < d.day THEN [d EXCEPT !.day = d.day + k]
    ELSE ShiftDays(PrevDate([d EXCEPT !.day = 1]), k + d.day)

\* datetime(year, month, day=1) + timedelta(days=k): the date part
FirstOfMonthPlus(year, month, k) ==
    LET d == ShiftDays([year |-> year, month |-> month, day |-> 1], k)
    IN  IF d.year < 1 \/ d.year > 9999 THEN OverflowError ELSE Return(d)

\* t.replace(year=year, month=month), and with the last day of the month
\* when that day does not exist
ReplaceClamped(t, year, month) ==
    IF t.day <= DaysInMonth(year, month) THEN [t EXCEPT !.year = year, !.month = month]
    ELSE [t EXCEPT !.year = year, !.month = month, !.day = DaysInMonth(year, month)]

\* the loop of add_month, count iterations from t2 on
RECURSIVE AddMonthLoop(_, _, _, _)
AddMonthLoop(t, n, t2, count) ==
    IF count = 0 THEN Return(t2)
    ELSE LET s == FirstOfMonthPlus(t2.year, t2.month, IF n > 0 THEN 32 ELSE -2)
         IN  IF Raised(s) THEN s
             ELSE AddMonthLoop(t, n, ReplaceClamped(t, s.value.year, s.value.month), count - 1)

\* add_month whose replace starts from the month before, not from t
RECURSIVE AddMonthLoopFromPrevious(_, _, _, _)
AddMonthLoopFromPrevious(t, n, t2, count) ==
    IF count = 0 THEN Return(t2)
    ELSE LET s == FirstOfMonthPlus(t2.year, t2.month, IF n > 0 THEN 32 ELSE -2)
         IN  IF Raised(s) THEN s
             ELSE AddMonthLoopFromPrevious(t, n, ReplaceClamped(t2, s.value.year, s.value.month), count - 1)

add_month_from_previous(t, n) == AddMonthLoopFromPrevious(t, n, t, IF n < 0 THEN -n ELSE n)

add_month(t, n) == AddMonthLoop(t, n, t, IF n < 0 THEN -n ELSE n)

\* the most months a caller adds or takes away in one call
MaxMonths == 13

\* jutil/tests.py test_add_month: times of day
TimesOfDay == {"01:00:00+00:00", "15:47:23.818646"}

\* the datetimes a caller holds: days at the ends of months, in leap and
\* common years and in the first and last year of datetime
DateTimes ==
    { [year |-> d.year, month |-> d.month, day |-> d.day, time |-> tod] :
        d \in Dates({1, 2016, 2019, 9999}, {1, 2, 3, 6, 11, 12}, {12, 28, 29, 30, 31}),
        tod \in TimesOfDay }

InitMonth ==
    /\ fn = ""
    /\ arg \in DateTimes
    /\ opt \in [n : (-MaxMonths)..MaxMonths]
    /\ out = Return(NoneVal)
    /\ from = "caller"
    /\ log = <<>>

\* the caller adds the months it holds to the datetime it holds
AddMonth ==
    /\ fn = ""
    /\ fn' = "add_month"
    /\ out' = add_month(arg, opt.n)
    /\ UNCHANGED <<arg, opt, from, log>>

\* the caller adds the same months to the result
AddMonthAgain ==
    /\ fn = "add_month"
    /\ from = "caller"
    /\ Returned(out)
    /\ arg' = out.value
    /\ from' = "add_month"
    /\ out' = add_month(out.value, opt.n)
    /\ UNCHANGED <<fn, opt, log>>

NextMonth == AddMonth \/ AddMonthAgain

SpecMonth == InitMonth /\ [][NextMonth]_vars

\* the months from year 1 January to the month of t, plus n
MonthIndex(t, n) == (t.year - 1) * 12 + (t.month - 1) + n

TargetYear(t, n) == (MonthIndex(t, n) \div 12) + 1

TargetMonth(t, n) == (MonthIndex(t, n) % 12) + 1

\* C19: add_month(t, n) is t moved n calendar months, with the time of day of
\* t and the day of t or, when the target month is shorter, its last day;
\* add_month(t, 0) is t
AddMonthClamps ==
    (fn = "add_month" /\ MonthIndex(arg, opt.n) >= 0 /\ TargetYear(arg, opt.n) <= 9999) =>
        LET y == TargetYear(arg, opt.n)
            m == TargetMonth(arg, opt.n)
            last == DaysInMonth(y, m)
        IN  /\ out = Return([year |-> y, month |-> m,
                             day |-> IF arg.day < last THEN arg.day ELSE last,
                             time |-> arg.time])
            /\ opt.n = 0 => out = Return(arg)

\* the 31st of December 2019 moved two months ahead became the 29th of
\* February 2020
AddMonthClampsWitness ==
    /\ fn = "add_month"
    /\ from = "caller"
    /\ arg.year = 2019 /\ arg.month = 12 /\ arg.day = 31
    /\ opt.n = 2
    /\ out.value.year = 2020 /\ out.value.month = 2 /\ out.value.day = 29

----------------------------------------------------------------------------
(* Named date ranges *)

Newline == "\n"

\* datetime(year, month, day): midnight, no tzinfo
DateTime(y, mo, d) ==
    IF y >= 1 /\ y <= 9999 /\ mo >= 1 /\ mo <= 12 /\ d >= 1 /\ d <= DaysInMonth(y, mo)
    THEN Return([year |-> y, month |-> mo, day |-> d, hour |-> 0, minute |-> 0,
                 second |-> 0, microsecond |-> 0, tzinfo |-> "None"])
    ELSE ValueError

\* t + timedelta(days=k) for a datetime t, k positive or negative
PlusDays(t, k) ==
    LET d == ShiftDays([year |-> t.year, month |-> t.month, day |-> t.day], k)
    IN  IF d.year < 1 \/ d.year > 9999 THEN OverflowError
        ELSE Return([t EXCEPT !.year = d.year, !.month = d.month, !.day = d.day])

\* datetime(day=1, month=s.month, year=s.year) of a datetime outcome s
FirstOfMonthOf(s) == IF Raised(s) THEN s ELSE DateTime(s.value.year, s.value.month, 1)

\* datetime(year=s.year, month=s.month, day=s.day) of a datetime outcome s
MidnightOf(s) == IF Raised(s) THEN s ELSE DateTime(s.value.year, s.value.month, s.value.day)

\* s + timedelta(days=k) of a datetime outcome s
ThenPlusDays(s, k) == IF Raised(s) THEN s ELSE PlusDays(s.value, k)

\* the days of the years before year y, and of the months before the day of t
DaysBeforeYear(y) == (y - 1) * 365 + ((y - 1) \div 4) - ((y - 1) \div 100) + ((y - 1) \div 400)

RECURSIVE DaysBeforeMonth(_, _)
DaysBeforeMonth(y, mo) == IF mo = 1 THEN 0 ELSE DaysBeforeMonth(y, mo - 1) + DaysInMonth(y, mo - 1)

\* t.weekday(): Monday is 0
Weekday(t) == (DaysBeforeYear(t.year) + DaysBeforeMonth(t.year, t.month) + t.day + 6) % 7

UtcOr(tz) == IF tz = "None" THEN "UTC" ELSE tz

replace_range_tzinfo(begin, end, tz) ==
    Return(<<[begin EXCEPT !.tzinfo = UtcOr(tz)], [end EXCEPT !.tzinfo = UtcOr(tz)]>>)

\* replace_range_tzinfo of two datetime outcomes, begin evaluated first
RangeOf(begin, end, tz) ==
    IF Raised(begin) THEN begin
    ELSE IF Raised(end) THEN end
    ELSE replace_range_tzinfo(begin.value, end.value, tz)

this_week(today, tz) ==
    LET begin == MidnightOf(PlusDays(today, -Weekday(today)))
    IN  RangeOf(begin, ThenPlusDays(begin, 7), tz)

this_month(today, tz) ==
    LET begin == DateTime(today.year, today.month, 1)
    IN  RangeOf(begin, FirstOfMonthOf(ThenPlusDays(begin, 32)), tz)

this_year(today, tz) ==
    LET begin == DateTime(today.year, 1, 1)
    IN  RangeOf(begin, DateTime(today.year + 1, 1, 1), tz)

next_year(today, tz) ==
    LET begin == DateTime(today.year + 1, 1, 1)
    IN  RangeOf(begin, DateTime(today.year + 1 + 2, 1, 1), tz)

next_week(today, tz) ==
    LET begin == MidnightOf(PlusDays(today, 7 - Weekday(today)))
    IN  RangeOf(begin, ThenPlusDays(begin, 7), tz)

next_month(today, tz) ==
    LET begin == FirstOfMonthOf(ThenPlusDays(DateTime(today.year, today.month, 1), 32))
    IN  RangeOf(begin, FirstOfMonthOf(ThenPlusDays(begin, 32)), tz)

last_week(today, tz) ==
    LET begin == MidnightOf(PlusDays(today, -(7 + Weekday(today))))
    IN  RangeOf(begin, ThenPlusDays(begin, 7), tz)

\* end - timedelta(seconds=1) of a midnight is in the day before
last_month(today, tz) ==
    LET end == DateTime(today.year, today.month, 1)
        end_incl == ThenPlusDays(end, -1)
    IN  IF Raised(end_incl) THEN end_incl ELSE RangeOf(FirstOfMonthOf(end_incl), end, tz)

last_year(today, tz) ==
    LET end == DateTime(today.year, 1, 1)
        end_incl == ThenPlusDays(end, -1)
    IN  IF Raised(end_incl) THEN end_incl
        ELSE RangeOf(DateTime(end_incl.value.year, 1, 1), end, tz)

yesterday(today, tz) ==
    LET end == DateTime(today.year, today.month, today.day)
        end_incl == ThenPlusDays(end, -1)
    IN  IF Raised(end_incl) THEN end_incl ELSE RangeOf(MidnightOf(end_incl), end, tz)

\* int(ch) of one decimal digit
DecimalDigitVal(ch) == IF ch = ArabicDigit3 THEN 3 ELSE DigitVal(ch)

\* int(v) of a string of decimal digits
RECURSIVE IntOfDigits(_)
IntOfDigits(v) ==
    IF v = <<>> THEN 0 ELSE IntOfDigits(AllButLast(v)) * 10 + DecimalDigitVal(v[Len(v)])

NoMatch == [none |-> TRUE]

\* re.match(r"^<prefix>(\d+)d$", name): group 1, or no match; $ also matches
\* before a newline that ends the name
MatchDays(prefix, name) ==
    LET body == IF name # <<>> /\ name[Len(name)] = Newline THEN AllButLast(name) ELSE name
        digits == Slice(body, Len(prefix), Len(body) - 1)
    IN  IF /\ Len(body) >= Len(prefix) + 2
           /\ Slice(body, 0, Len(prefix)) = prefix
           /\ body[Len(body)] = "d"
           /\ \A i \in 1..Len(digits) : IsDecimalDigit(digits[i])
        THEN [group1 |-> digits]
        ELSE NoMatch

\* today.replace(hour=0, minute=0, second=0, microsecond=0)
ReplaceMidnight(today) == [today EXCEPT !.hour = 0, !.minute = 0, !.second = 0, !.microsecond = 0]

\* the branches of get_date_range_by_name after the names of the fixed ranges
DaysRangeByName(name, today, tz) ==
    LET begin == ReplaceMidnight(today)
        pm == MatchDays(<<"p", "l", "u", "s", "_", "m", "i", "n", "u", "s", "_">>, name)
        pv == MatchDays(<<"p", "r", "e", "v", "_">>, name)
        nx == MatchDays(<<"n", "e", "x", "t", "_">>, name)
    IN  IF pm # NoMatch
        THEN RangeOf(PlusDays(begin, -IntOfDigits(pm.group1)),
                     PlusDays(today, IntOfDigits(pm.group1)), tz)
        ELSE IF pv # NoMatch
        THEN RangeOf(PlusDays(begin, -IntOfDigits(pv.group1)), Return(today), tz)
        ELSE IF nx # NoMatch
        THEN RangeOf(Return(begin), PlusDays(today, IntOfDigits(nx.group1)), tz)
        ELSE ValueError

get_date_range_by_name(name, today, tz) ==
    LET begin == ReplaceMidnight(today)
    IN  CASE name = <<"l", "a", "s", "t", "_", "w", "e", "e", "k">> -> last_week(today, tz)
          [] name = <<"l", "a", "s", "t", "_", "m", "o", "n", "t", "h">> -> last_month(today, tz)
          [] name = <<"l", "a", "s", "t", "_", "y", "e", "a", "r">> -> last_year(today, tz)
          [] name = <<"t", "h", "i", "s", "_", "w", "e", "e", "k">> -> this_week(today, tz)
          [] name = <<"t", "h", "i", "s", "_", "m", "o", "n", "t", "h">> -> this_month(today, tz)
          [] name = <<"t", "h", "i", "s", "_", "y", "e", "a", "r">> -> this_year(today, tz)
          [] name = <<"n", "e", "x", "t", "_", "w", "e", "e", "k">> -> next_week(today, tz)
          [] name = <<"n", "e", "x", "t", "_", "m", "o", "n", "t", "h">> -> next_month(today, tz)
          [] name = <<"n", "e", "x", "t", "_", "y", "e", "a", "r">> -> next_year(today, tz)
          [] name = <<"y", "e", "s", "t", "e", "r", "d", "a", "y">> -> yesterday(today, tz)
          [] name = <<"t", "o", "d", "a", "y">> -> RangeOf(Return(begin), PlusDays(begin, 1), tz)
          [] name = <<"t", "o", "m", "o", "r", "r", "o", "w">> -> RangeOf(PlusDays(begin, 1), PlusDays(begin, 2), tz)
          [] OTHER -> DaysRangeByName(name, today, tz)

\* the longest range in days that a caller asks for by a name it composes
MaxRangeDays == 7

\* jutil/tests.py test_named_date_ranges: day_ranges
TestedRangeDays == {15, 30, 60, 90}

RangeDays == (0..MaxRangeDays) \cup TestedRangeDays

FixedRangeNames ==
    { <<"y", "e", "s", "t", "e", "r", "d", "a", "y">>, <<"t", "o", "d", "a", "y">>, <<"t", "o", "m", "o", "r", "r", "o", "w">>, <<"l", "a", "s", "t", "_", "w", "e", "e", "k">>, <<"l", "a", "s", "t", "_", "m", "o", "n", "t", "h">>, <<"l", "a", "s", "t", "_", "y", "e", "a", "r">>,
      <<"t", "h", "i", "s", "_", "w", "e", "e", "k">>, <<"t", "h", "i", "s", "_", "m", "o", "n", "t", "h">>, <<"t", "h", "i", "s", "_", "y", "e", "a", "r">>, <<"n", "e", "x", "t", "_", "w", "e", "e", "k">>, <<"n", "e", "x", "t", "_", "m", "o", "n", "t", "h">>, <<"n", "e", "x", "t", "_", "y", "e", "a", "r">> }

DaysRangePrefixes == { <<"p", "r", "e", "v", "_">>, <<"p", "l", "u", "s", "_", "m", "i", "n", "u", "s", "_">>, <<"n", "e", "x", "t", "_">> }

DaysRangeNames == { p \o IntToStr(n) \o <<"d">> : p \in DaysRangePrefixes, n \in RangeDays }

\* names that are no range, or a range written in another way
OtherRangeNames ==
    { <<>>, <<"p", "r", "e", "v", "_", "d">>, <<"p", "r", "e", "v", "_", "7">>, <<"p", "r", "e", "v", "-", "7", "d">>, <<"n", "e", "x", "t", "_", "0", "7", "d">>, <<"n", "e", "x", "t", "_", "7", "d">> \o <<Newline>>,
      <<"p", "r", "e", "v", "_">> \o <<ArabicDigit3>> \o <<"d">>, <<"l", "a", "s", "t", "_", "7", "d">>, <<"Y", "e", "s", "t", "e", "r", "d", "a", "y">> }

RangeNames == FixedRangeNames \cup DaysRangeNames \cup OtherRangeNames

\* the current datetimes of a caller: midnight as in the tests, an afternoon
\* and the last microsecond of a day
RangeTimes ==
    { [hour |-> 0, minute |-> 0, second |-> 0, microsecond |-> 0],
      [hour |-> 15, minute |-> 30, second |-> 0, microsecond |-> 0],
      [hour |-> 23, minute |-> 59, second |-> 59, microsecond |-> 999999] }

Todays ==
    { [year |-> d.year, month |-> d.month, day |-> d.day, hour |-> t.hour, minute |-> t.minute,
       second |-> t.second, microsecond |-> t.microsecond, tzinfo |-> "None"] :
        d \in Dates({2018, 2020}, {1, 2, 3, 5, 12}, {1, 28, 29, 31}), t \in RangeTimes }

RangeTimezones == {"None", "Europe/Helsinki"}

InitRange ==
    /\ fn = ""
    /\ arg \in RangeNames
    /\ opt \in [today : Todays, tz : RangeTimezones]
    /\ out = Return(NoneVal)
    /\ from = "caller"
    /\ log = <<>>

\* the caller asks for the range of the name it holds
GetDateRangeByName ==
    /\ fn = ""
    /\ fn' = "get_date_range_by_name"
    /\ out' = get_date_range_by_name(arg, opt.today, opt.tz)
    /\ UNCHANGED <<arg, opt, from, log>>

NextRange == GetDateRangeByName

SpecRange == InitRange /\ [][NextRange]_vars

\* the date and the time of day of a datetime, without its tzinfo
WallTime(t) == [t EXCEPT !.tzinfo = "None"]

\* the number N of a name <prefix>Nd written in ASCII digits, or -1
DaysOfName(prefix, name) ==
    IF /\ Len(name) >= Len(prefix) + 2
       /\ SubSeq(name, 1, Len(prefix)) = prefix
       /\ name[Len(name)] = "d"
       /\ \A i \in (Len(prefix) + 1)..(Len(name) - 1) : name[i] \in Digits
    THEN StrToInt(SubSeq(name, Len(prefix) + 1, Len(name) - 1))
    ELSE -1

\* today moved k days, at the same time of day
DaysFrom(today, k) == PlusDays(today, k).value

\* C20: prev_Nd is (today - N days, today), next_Nd is (today, today + N days)
\* and plus_minus_Nd is (today - N days, today + N days), at every time of
\* day of today
DayRangesFromNow ==
    fn = "get_date_range_by_name" =>
        LET today == opt.today
            pv == DaysOfName(<<"p", "r", "e", "v", "_">>, arg)
            nx == DaysOfName(<<"n", "e", "x", "t", "_">>, arg)
            pm == DaysOfName(<<"p", "l", "u", "s", "_", "m", "i", "n", "u", "s", "_">>, arg)
        IN  /\ pv >= 0 =>
                /\ Returned(out)
                /\ WallTime(out.value[1]) = DaysFrom(today, -pv)
                /\ WallTime(out.value[2]) = today
            /\ nx >= 0 =>
                /\ Returned(out)
                /\ WallTime(out.value[1]) = today
                /\ WallTime(out.value[2]) = DaysFrom(today, nx)
            /\ pm >= 0 =>
                /\ Returned(out)
                /\ WallTime(out.value[1]) = DaysFrom(today, -pm)
                /\ WallTime(out.value[2]) = DaysFrom(today, pm)

----------------------------------------------------------------------------
(* Language cookie *)

\* an attribute that settings does not have
NoAttr == <<"NoAttr">>

\* hasattr(settings, name) of the attribute value a
HasAttr(a) == a # NoAttr

\* EnsureLanguageCookieMiddleware.languages: the keys of dict(settings.LANGUAGES)
languages(settings) == settings.LANGUAGES

\* the language that __call__ stores in request.COOKIES
RequestLanguage(request, settings) ==
    LET lang_cookie == request.COOKIES
        lang0 == request.GET
        lang1 == IF ~Truthy(lang0) THEN lang_cookie ELSE lang0
    IN  IF ~Truthy(lang1) \/ lang1 \notin languages(settings)
        THEN (IF HasAttr(settings.LANGUAGE_CODE) THEN settings.LANGUAGE_CODE ELSE <<"e", "n">>)
        ELSE lang1

\* the cookie that __call__ sets on the response, or no cookie
ResponseCookie(request, settings) ==
    LET lang_cookie == request.COOKIES
        lang == RequestLanguage(request, settings)
    IN  IF lang_cookie = NoneVal \/ lang # lang_cookie
        THEN [value |-> lang,
              secure |-> HasAttr(settings.LANGUAGE_COOKIE_SECURE)
                            /\ settings.LANGUAGE_COOKIE_SECURE = <<"True">>,
              httponly |-> HasAttr(settings.LANGUAGE_COOKIE_HTTPONLY)
                            /\ settings.LANGUAGE_COOKIE_HTTPONLY = <<"True">>]
        ELSE [none |-> TRUE]

NoCookie == [none |-> TRUE]

\* the most requests one browser sends
MaxRequests == 2

LanguageCodes == { <<"e", "n">>, <<"f", "i">>, <<"s", "v">>, <<"x", "x">> }

\* what a browser sends as the querystring parameter or as the cookie
SentLanguages == LanguageCodes \cup {NoneVal, <<>>}

Settings ==
    [LANGUAGES : { { <<"e", "n">>, <<"f", "i">> }, { <<"f", "i">>, <<"s", "v">> } },
     LANGUAGE_CODE : { <<"e", "n">>, <<"f", "i">>, NoAttr },
     LANGUAGE_COOKIE_SECURE : {<<"True">>, <<"False">>, NoAttr},
     LANGUAGE_COOKIE_HTTPONLY : {<<"True">>, NoAttr}]

InitLanguage ==
    /\ fn = ""
    /\ arg \in [GET : SentLanguages, COOKIES : SentLanguages, sent : {NoneVal}]
    /\ arg.sent = arg.COOKIES
    /\ opt \in Settings
    /\ out = Return(NoneVal)
    /\ from = "browser"
    /\ log = <<>>

\* the middleware handles the request: it stores the language in
\* request.COOKIES, calls the view and sets the cookie on the response
EnsureLanguageCookie ==
    /\ fn = ""
    /\ fn' = "EnsureLanguageCookieMiddleware"
    /\ arg' = [arg EXCEPT !.COOKIES = RequestLanguage(arg, opt)]
    /\ out' = Return(ResponseCookie(arg, opt))
    /\ log' = Append(log, arg.GET)
    /\ UNCHANGED <<opt, from>>

\* the browser keeps the cookie of the response and sends the next request
NextRequest ==
    /\ fn = "EnsureLanguageCookieMiddleware"
    /\ Len(log) < MaxRequests
    /\ \E get \in SentLanguages :
        LET kept == IF out.value = NoCookie THEN arg.sent ELSE out.value.value
        IN  arg' = [GET |-> get, COOKIES |-> kept, sent |-> kept]
    /\ fn' = ""
    /\ out' = Return(NoneVal)
    /\ UNCHANGED <<opt, from, log>>

NextLanguage == EnsureLanguageCookie \/ NextRequest

SpecLanguage == InitLanguage /\ [][NextLanguage]_vars

\* a candidate that is set and is one of settings.LANGUAGES
Configured(lang, settings) == lang # NoneVal /\ lang # <<>> /\ lang \in settings.LANGUAGES

\* C21: the request language is the querystring parameter when it is a
\* configured language, else the stored cookie when that is one, else
\* settings.LANGUAGE_CODE
LanguageByPreference ==
    (fn = "EnsureLanguageCookieMiddleware" /\ HasAttr(opt.LANGUAGE_CODE)) =>
        arg.COOKIES =
            IF Configured(log[Len(log)], opt) THEN log[Len(log)]
            ELSE IF Configured(arg.sent, opt) THEN arg.sent
            ELSE opt.LANGUAGE_CODE

----------------------------------------------------------------------------
(* Waiting for an object *)

\* the longest timeout and sleep interval of a call, in clock ticks, and
\* the ticks that pass outside the sleeps
MaxTimeout == 2
MaxSleepInterval == 2
MaxTicks == 3

\* the object that the filter matches
TheObject == <<"obj">>

\* qs0.all().filter(**kwargs).first()
First(db) == IF db THEN TheObject ELSE NoneVal

\* t0 + timedelta(seconds=timeout), a tick too early
DeadlineEarly(t0, timeout) == t0 + timeout - 1

\* t0 + timedelta(seconds=timeout)
Deadline(t0, timeout) == t0 + timeout

\* the condition of the while statement; an Optional is <<>> or <<value>>
WhileCondition(t0, t1) == t0 = <<>> \/ t0[1] < t1[1]

\* the first poll and the latest poll of the call
Polled(polls, p) == IF polls = <<>> THEN <<p>> ELSE <<polls[1], p>>

InitWait ==
    /\ fn = ""
    /\ arg \in [db : BOOLEAN, clock : {0}, t0 : {<<>>}, t1 : {<<>>}]
    /\ opt \in [timeout : 0..MaxTimeout, sleep_interval : 0..MaxSleepInterval]
    /\ out = Return(NoneVal)
    /\ from = "caller"
    /\ log = <<>>

\* the caller calls wait_object_or_none
WaitObjectOrNone ==
    /\ fn = ""
    /\ fn' = "while"
    /\ UNCHANGED <<arg, opt, out, from, log>>

\* one test of the while condition and, when it holds, one poll
WaitPoll ==
    /\ fn = "while"
    /\ IF WhileCondition(arg.t0, arg.t1)
       THEN /\ log' = Polled(log, [found |-> arg.db, at |-> arg.clock])
            /\ IF First(arg.db) # NoneVal
               THEN /\ fn' = "wait_object_or_none"
                    /\ out' = Return(First(arg.db))
                    /\ arg' = arg
               ELSE /\ fn' = "sleep"
                    /\ arg' = [arg EXCEPT !.t0 = <<arg.clock>>,
                                          !.t1 = IF arg.t1 = <<>>
                                                 THEN <<Deadline(arg.clock, opt.timeout)>>
                                                 ELSE arg.t1]
                    /\ out' = out
       ELSE /\ fn' = "final"
            /\ UNCHANGED <<arg, out, log>>
    /\ UNCHANGED <<opt, from>>

\* sleep(sleep_interval): at least the interval passes
WaitSleep ==
    /\ fn = "sleep"
    /\ fn' = "while"
    /\ \E late \in 0..1 : arg' = [arg EXCEPT !.clock = arg.clock + opt.sleep_interval + late * opt.sleep_interval]
    /\ UNCHANGED <<opt, out, from, log>>

\* the poll after the loop
WaitFinalPoll ==
    /\ fn = "final"
    /\ fn' = "wait_object_or_none"
    /\ log' = Polled(log, [found |-> arg.db, at |-> arg.clock])
    /\ out' = Return(First(arg.db))
    /\ UNCHANGED <<arg, opt, from>>

\* time passes between two steps of the call
ClockTick ==
    /\ fn \in {"while", "sleep", "final"}
    /\ arg.clock < MaxTicks
    /\ arg' = [arg EXCEPT !.clock = arg.clock + 1]
    /\ UNCHANGED <<fn, opt, out, from, log>>

\* another process saves or deletes the object
ObjectSaved ==
    /\ fn \in {"while", "sleep", "final"}
    /\ arg' = [arg EXCEPT !.db = ~arg.db]
    /\ UNCHANGED <<fn, opt, out, from, log>>

WaitStep == WaitObjectOrNone \/ WaitPoll \/ WaitSleep \/ WaitFinalPoll

NextWait == WaitStep \/ ClockTick \/ ObjectSaved

\* the call runs on while it can; the clock and the other processes need not
SpecWait == InitWait /\ [][NextWait]_vars /\ WF_vars(WaitStep)

WaitReturned == fn = "wait_object_or_none"

\* every poll that finds the object ends the call with it, a call that
\* returns None polled last at or after the deadline, and that is at least
\* timeout after its first poll
WaitSafe ==
    /\ (log # <<>> /\ log[Len(log)].found) => (WaitReturned /\ out = Return(TheObject))
    /\ (WaitReturned /\ out = Return(TheObject)) => log[Len(log)].found
    /\ (WaitReturned /\ out = Return(NoneVal)) =>
        /\ Len(log) = 2
        /\ ~log[1].found /\ ~log[2].found
        /\ log[2].at >= log[1].at + opt.timeout
        /\ arg.clock >= log[1].at + opt.timeout

\* C22: wait_object_or_none returns the object at the first poll that finds
\* it, returns None only after a last poll at or after the deadline found
\* none and never sooner than timeout after the first poll, and with a
\* positive sleep interval it returns
WaitObjectOrNoneReturns ==
    /\ []WaitSafe
    /\ (opt.sleep_interval > 0) => <>WaitReturned

\* a call with the longest timeout slept one tick at a time and returned
\* None from the poll one tick after the deadline
WaitObjectOrNoneReturnsWitness ==
    /\ WaitReturned
    /\ out = Return(NoneVal)
    /\ opt.timeout = MaxTimeout
    /\ opt.sleep_interval = 1
    /\ log[2].at = log[1].at + opt.timeout + 1

----------------------------------------------------------------------------
(* Cached fields *)

\* the greatest value of a field
MaxValue == 1

FieldNames == {"a", "b"}

FieldValues == 0..MaxValue

Exception == Raise("Exception", "")

\* hasattr(self, "get_" + k)
HasGetter(self, k) == self.getters[k].kind # "missing"

\* self.get_k(): get_k returns a value of its own, or raises
CallGetter(self, k) ==
    LET g == self.getters[k]
    IN  IF g.kind = "raises" THEN Exception ELSE Return(g.value)

\* the for statement of update_cached_fields from fields[i] on: the object,
\* changed_fields and the exception that ended the loop, if any
RECURSIVE UpdateLoop(_, _, _, _, _)
UpdateLoop(self, fields, i, changed_fields, force) ==
    IF i > Len(fields) THEN [self |-> self, changed_fields |-> changed_fields, err |-> FALSE]
    ELSE LET k == fields[i]
         IN  IF ~HasGetter(self, k)
             THEN [self |-> self, changed_fields |-> changed_fields, err |-> TRUE]
             ELSE LET v == CallGetter(self, k)
                  IN  IF Raised(v)
                      THEN [self |-> self, changed_fields |-> changed_fields, err |-> TRUE]
                      ELSE IF force \/ self.fields[k] # v.value
                      THEN UpdateLoop([self EXCEPT !.fields[k] = v.value], fields, i + 1,
                                      Append(changed_fields, k), force)
                      ELSE UpdateLoop(self, fields, i + 1, changed_fields, force)

\* updated_fields or self.cached_fields
FieldsToUpdate(self, updated_fields) ==
    IF updated_fields = NoneVal \/ updated_fields = <<>> THEN self.cached_fields ELSE updated_fields

\* update_cached_fields: the object, the calls of save and the outcome
update_cached_fields(self, saves, commit, exceptions, updated_fields, force) ==
    LET r == UpdateLoop(self, FieldsToUpdate(self, updated_fields), 1, <<>>, force)
    IN  IF r.err
        THEN [self |-> r.self, saves |-> saves,
              out |-> IF exceptions THEN Exception ELSE Return(r.changed_fields)]
        ELSE [self |-> r.self,
              saves |-> IF commit /\ r.changed_fields # <<>>
                        THEN Append(saves, r.changed_fields) ELSE saves,
              out |-> Return(r.changed_fields)]

\* update_cached_fields_pre_save
update_cached_fields_pre_save(self, saves, update_fields) ==
    IF self.pk /\ update_fields = NoneVal
    THEN update_cached_fields(self, saves, FALSE, FALSE, NoneVal, FALSE)
    ELSE [self |-> self, saves |-> saves, out |-> Return(<<>>)]

\* get_k returns a value, does not exist or raises
Getters == [kind : {"returns"}, value : FieldValues] \cup [kind : {"missing", "raises"}, value : {0}]

FieldLists == {<<"a">>, <<"b">>, <<"a", "b">>, <<"b", "a">>}

CachedObjects ==
    [fields : [FieldNames -> FieldValues], getters : [FieldNames -> Getters],
     cached_fields : {<<"a", "b">>}, pk : BOOLEAN]

InitCached ==
    /\ fn = ""
    /\ arg \in CachedObjects
    /\ opt \in [commit : BOOLEAN, exceptions : BOOLEAN, force : BOOLEAN,
                updated_fields : FieldLists \cup {NoneVal, <<>>}]
    /\ out = Return(NoneVal)
    /\ from = [self |-> arg, saves |-> 0]
    /\ log = <<>>

\* the caller updates the cached fields of its object, once and once more;
\* from holds the object and the number of saves before the call, log the
\* update_fields of every save
UpdateCachedFields ==
    /\ fn \in {"", "update_cached_fields"}
    /\ LET r == update_cached_fields(arg, log, opt.commit, opt.exceptions, opt.updated_fields, opt.force)
       IN  /\ arg' = r.self
           /\ log' = r.saves
           /\ out' = r.out
    /\ fn' = IF fn = "" THEN "update_cached_fields" ELSE "update_cached_fields again"
    /\ from' = [self |-> arg, saves |-> Len(log)]
    /\ UNCHANGED opt

\* the pre_save signal of the object
UpdateCachedFieldsPreSave ==
    /\ fn = ""
    /\ LET r == update_cached_fields_pre_save(arg, log, opt.updated_fields)
       IN  /\ arg' = r.self
           /\ log' = r.saves
           /\ out' = r.out
    /\ fn' = "update_cached_fields_pre_save"
    /\ from' = [self |-> arg, saves |-> Len(log)]
    /\ UNCHANGED opt

NextCached == UpdateCachedFields \/ UpdateCachedFieldsPreSave

SpecCached == InitCached /\ [][NextCached]_vars

\* the getter of k returns, and its value on the object self
GetterValue(self, k) == CallGetter(self, k).value

GetterReturns(self, k) == HasGetter(self, k) /\ Returned(CallGetter(self, k))

\* this call has saved the object with update_fields = fields
SavedWith(fields) == Len(log) = from.saves + 1 /\ log[Len(log)] = fields

\* C23: after update_cached_fields returns, every field of the returned list
\* equals its getter, the list is the fields that differed from their
\* getters before the call (all of them with force), save is called exactly
\* when commit is set and the list is not empty, and a second call without
\* force returns the empty list and does not save
CachedFieldsUpdated ==
    (fn \in {"update_cached_fields", "update_cached_fields again"} /\ Returned(out)) =>
        LET fields == FieldsToUpdate(from.self, opt.updated_fields)
        IN  /\ \A i \in 1..Len(out.value) :
                GetterReturns(arg, out.value[i]) /\ arg.fields[out.value[i]] = GetterValue(arg, out.value[i])
            /\ out.value = SelectSeq(fields, LAMBDA k :
                    GetterReturns(from.self, k)
                        /\ (opt.force \/ from.self.fields[k] # GetterValue(from.self, k)))
            /\ SavedWith(out.value) <=> (opt.commit /\ out.value # <<>>)
            /\ Len(log) > from.saves => SavedWith(out.value)
            /\ (fn = "update_cached_fields again" /\ ~opt.force) =>
                    (out.value = <<>> /\ Len(log) = from.saves)

----------------------------------------------------------------------------
(* Swedish clearing codes *)

\* the longest clearing code with account digits that a caller types
ClearingLen == 5

ClearingChars == {"0", "1", "3", "9", "A"}

\* accounts with and without the country and check digits
ClearingInputs ==
    { h \o b : h \in { <<>>, <<"S", "E", "7", "9">>, <<"s", "e", "7", "9", " ">> },
               b \in Strings(ClearingChars, ClearingLen) }

InitClearing == Idle(ClearingInputs)

NextClearing == SeClearingCodeBankInfo

SpecClearing == InitClearing /\ [][NextClearing]_vars

\* the first 4 characters after the optional SEkk of the filtered account
ClearingCode(account_number) ==
    LET f == iban_filter(account_number).value
        v == IF Len(f) >= 2 /\ f[1] = "S" /\ f[2] = "E"
             THEN (IF Len(f) > 4 THEN SubSeq(f, 5, Len(f)) ELSE <<>>)
             ELSE f
    IN  IF Len(v) > 4 THEN SubSeq(v, 1, 4) ELSE v

\* the rows whose range of numbers holds the number n
RowsHolding(n) ==
    {i \in 1..Len(SE_BANK_CLEARING_LIST) :
        /\ StrToInt(SE_BANK_CLEARING_LIST[i][2]) <= n
        /\ n <= StrToInt(SE_BANK_CLEARING_LIST[i][3])}

\* C24: se_clearing_code_bank_info returns the name and the digit count of
\* the row whose range of numbers holds the 4-digit clearing code, and
\* ("", None) when the code is no 4-digit number in a range
ClearingCodeByNumber ==
    fn = "se_clearing_code_bank_info" =>
        LET code == ClearingCode(arg)
            rows == IF Len(code) = 4 /\ \A i \in 1..4 : code[i] \in Digits
                    THEN RowsHolding(StrToInt(code)) ELSE {}
        IN  IF rows = {} THEN out = Return(<<"", NoneVal>>)
            ELSE \E i \in rows :
                    out = Return(<<SE_BANK_CLEARING_LIST[i][1], SE_BANK_CLEARING_LIST[i][4]>>)

----------------------------------------------------------------------------
(* Long IBANs *)

\* C25: iban_validator accepts every input whose filtered form starts with
\* a country of registered length above 26 and has that length, whatever
\* its check digits are
LongIbanUnchecked ==
    (fn = "iban_validator" /\ arg # NoneVal) =>
        LET v == Filtered(arg)
        IN  (/\ Len(v) >= 2
             /\ Registered(SubSeq(v, 1, 2))
             /\ IBAN_LENGTH_BY_COUNTRY[SubSeq(v, 1, 2)] > 26
             /\ Len(v) = IBAN_LENGTH_BY_COUNTRY[SubSeq(v, 1, 2)]) => Returned(out)

\* an Albanian account of 28 characters was accepted with check digits
\* that leave another remainder than 1
LongIbanUncheckedWitness ==
    /\ fn = "iban_validator"
    /\ Returned(out)
    /\ Len(arg) = 28
    /\ arg[1] = "A" /\ arg[2] = "L" /\ arg[3] = "0" /\ arg[4] = "0"
    /\ NumeralMod(IbanNumeral(SubSeq(arg, 5, 28) \o SubSeq(arg, 1, 4)), 97) # 1

----------------------------------------------------------------------------
(* Check digits of Finnish company org ids *)

\* jutil/tests.py test_org_id_fi: the first five digits of 0109823-0, with
\* every sixth, seventh and last digit
OrgIdDigits ==
    { <<"0", "1", "0", "9", "8", d6, d7, d8>> : d6 \in Digits, d7 \in Digits, d8 \in Digits }

\* the ways of writing the eight digits that pass the first checks
OrgIdWritings ==
    { "digits", "dash", "FI", "FI-", "spaces" }

WriteOrgId(d, w) ==
    CASE w = "digits" -> d
      [] w = "dash" -> SubSeq(d, 1, 7) \o <<"-">> \o SubSeq(d, 8, 8)
      [] w = "FI" -> <<"F", "I">> \o d
      [] w = "FI-" -> <<"F", "I", "-">> \o d
      [] w = "spaces" -> <<" ">> \o SubSeq(d, 1, 4) \o <<" ">> \o SubSeq(d, 5, 8)
      [] OTHER -> <<"S", "E">> \o d

OrgIdCheckInputs == { WriteOrgId(d, w) : d \in OrgIdDigits, w \in OrgIdWritings \cup {"SE"} }

InitOrgIdCheck == Idle(OrgIdCheckInputs)

NextOrgIdCheck == ValidateFiCompanyOrgId

SpecOrgIdCheck == InitOrgIdCheck /\ [][NextOrgIdCheck]_vars

\* the digits of the input, in order
OrgIdDigitsOf(v) == SelectSeq(v, LAMBDA ch : ch \in Digits)

\* C26: for eight digits after a numeric or FI prefix, with r the remainder
\* modulo 11 of the weighted sum of the first seven: r = 1 is rejected,
\* r >= 2 is accepted exactly when the last digit is 11 - r, and r = 0 is
\* accepted with any last digit
OrgIdCheckDigit ==
    (fn = "fi_company_org_id_validator" /\ ~(arg[1] = "S" /\ arg[2] = "E")) =>
        LET d == OrgIdDigitsOf(arg)
            r == OrgIdWeighted(d) % 11
        IN  /\ Len(d) = 8
            /\ r = 1 => Raised(out) /\ out.exc = "ValidationError"
            /\ r >= 2 => (Returned(out) <=> DigitVal(d[8]) = 11 - r)
            /\ r >= 2 => (Returned(out) \/ out.exc = "ValidationError")
            /\ r = 0 => Returned(out)

\* 0109807-5 has the remainder 0 and was accepted with the last digit 5
OrgIdCheckDigitWitness ==
    /\ fn = "fi_company_org_id_validator"
    /\ OrgIdDigitsOf(arg) = <<"0", "1", "0", "9", "8", "0", "7", "5">>
    /\ OrgIdWeighted(OrgIdDigitsOf(arg)) % 11 = 0
    /\ Returned(out)

----------------------------------------------------------------------------
(* The checksum search *)

\* the digits of the BBAN that are drawn freely; the others are 0
DrawnDigits == 2

\* the BBANs of the search: the starts of DrawnDigits digits leave every
\* remainder modulo 97, since 10 has an inverse
ChecksumStreams == [head : [1..DrawnDigits -> Digits], fill : {"0"}]

InitChecksum ==
    /\ fn = ""
    /\ arg \in GeneratorCountries
    /\ opt \in [country : {arg}, stream : ChecksumStreams]
    /\ out = Return(NoneVal)
    /\ from = "caller"
    /\ log = <<>>

\* the caller asks for an account of the country it holds; the digits
\* that random.choice draws are those of the stream
IbanGeneratorOfCountry ==
    /\ fn = ""
    /\ fn' = "iban_generator"
    /\ out' = iban_generator(arg, opt.country, opt.stream)
    /\ UNCHANGED <<arg, opt, from, log>>

NextChecksum == IbanGeneratorOfCountry \/ ValidateGenerated

SpecChecksum == InitChecksum /\ [][NextChecksum]_vars

\* C27: for every supported country and every BBAN the search finds a
\* checksum between 01 and 99 whose numeral leaves the remainder 1 modulo
\* 97, and the generator returns
ChecksumSearchSucceeds ==
    (fn = "iban_generator" /\ arg \in GeneratorCountries) =>
        /\ Returned(out)
        /\ LET v == out.value
               n == Len(v)
               checksum == StrToInt(SubSeq(v, 3, 4))
           IN  /\ n = IBAN_LENGTH_BY_COUNTRY[arg]
               /\ checksum >= 1 /\ checksum <= 99
               /\ SpelledMod97(SubSeq(v, 5, n) \o SubSeq(v, 1, 4), 1, 0) = 1
               /\ SubSeq(v, 5, n) = RandomDigits(opt.stream, n - 4)

\* a BBAN whose numeral needs the checksum 97, the 97th that is tried
ChecksumSearchSucceedsWitness ==
    /\ fn = "iban_generator"
    /\ arg \in GeneratorCountries
    /\ Returned(out)
    /\ out.value[3] = "9" /\ out.value[4] = "7"

----------------------------------------------------------------------------
(* Birthdays of Finnish SSNs *)

\* the caller asks for the birthday of the number the generator returned
BirthdayOfGeneratedFiSsn ==
    /\ fn = "fi_ssn_generator"
    /\ Returned(out)
    /\ fn' = "fi_ssn_birthday"
    /\ arg' = out.value
    /\ from' = "fi_ssn_generator"
    /\ out' = fi_ssn_birthday(out.value)
    /\ UNCHANGED <<opt, log>>

NextBirthday == FiSsnBirthday \/ FiSsnGenerator \/ BirthdayOfGeneratedFiSsn

SpecBirthday == InitFiSsn /\ [][NextBirthday]_vars

\* the century that the separator stands for
CenturyOf(sep) == IF sep = "+" THEN 1800 ELSE IF sep = "-" THEN 1900 ELSE 2000

\* C28: for an input that fi_ssn_validator accepts, with one of the three
\* separators, fi_ssn_birthday returns the date with day DD, month MM and
\* year YY plus the century of the separator, and for a generated number
\* the year lies in min_year..max_year
BirthdayOfAccepted ==
    (/\ fn = "fi_ssn_birthday"
     /\ Returned(fi_ssn_validator(arg))
     /\ fi_ssn_filter(arg).value[7] \in {"+", "-", "A"}) =>
        LET v == fi_ssn_filter(arg).value
        IN  /\ Returned(out)
            /\ out.value.day = StrToInt(SubSeq(v, 1, 2))
            /\ out.value.month = StrToInt(SubSeq(v, 3, 4))
            /\ out.value.year = StrToInt(SubSeq(v, 5, 6)) + CenturyOf(v[7])
            /\ from = "fi_ssn_generator" =>
                    (opt.min_year <= out.value.year /\ out.value.year <= opt.max_year)

----------------------------------------------------------------------------
(* Sanitizers *)

phone_sanitizer(v0) ==
    LET v == phone_filter(v0).value
    IN  IF v = <<>> \/ ~PhoneMatch(v) THEN Return(<<>>) ELSE Return(v)

email_sanitizer(v0) ==
    LET v == email_filter(v0).value
    IN  IF v = <<>> \/ ~EmailMatch(v) THEN Return(<<>>) ELSE Return(v)

\* the passport sanitizer with four characters as the least length
passport_sanitizer_from_4(v0) ==
    LET v == passport_filter(v0).value
    IN  IF v = <<>> \/ Len(v) < 4 THEN Return(<<>>) ELSE Return(v)

passport_sanitizer(v0) ==
    LET v == passport_filter(v0).value
    IN  IF v = <<>> \/ Len(v) < 5 THEN Return(<<>>) ELSE Return(v)

country_code_sanitizer(v0) ==
    LET f == country_code_filter(v0)
    IN  IF Raised(f) THEN f
        ELSE IF 2 <= Len(f.value) /\ Len(f.value) <= 3 THEN f ELSE Return(<<>>)

bic_sanitizer(v0) ==
    LET f == bic_filter(v0)
    IN  IF Raised(f) THEN f
        ELSE IF 8 <= Len(f.value) /\ Len(f.value) <= 11 THEN f ELSE Return(<<>>)

\* the kinds that have a filter, a validator and a sanitizer
SanitizedKinds == {"phone", "email", "passport", "country_code", "bic"}

ApplySanitizer(kind, v) ==
    CASE kind = "phone" -> phone_sanitizer(v)
      [] kind = "email" -> email_sanitizer(v)
      [] kind = "passport" -> passport_sanitizer(v)
      [] kind = "country_code" -> country_code_sanitizer(v)
      [] kind = "bic" -> bic_sanitizer(v)

FilterOfKind(kind, v) ==
    CASE kind = "phone" -> phone_filter(v)
      [] kind = "email" -> email_filter(v)
      [] kind = "passport" -> passport_filter(v)
      [] kind = "country_code" -> country_code_filter(v)
      [] kind = "bic" -> bic_filter(v)

ValidatorOfKind(kind, v) ==
    CASE kind = "phone" -> phone_validator(v)
      [] kind = "email" -> email_validator(v)
      [] kind = "passport" -> passport_validator(v)
      [] kind = "country_code" -> country_code_validator(v)
      [] kind = "bic" -> bic_validator(v)

SanitizerChars == {"1", "a", "A", " ", "+", "-", "@", ".", SharpS}

\* jutil/tests.py test_sanitizers and values at the least and greatest
\* lengths that the validators accept
SanitizerValues ==
    { <<"k", "o", "d", "s">>, <<"f", "i">>, <<"+", "1", "3", "1", "4", "6", "0", "9", "4", "4", "5", "9">>, <<"1", "3", "1", "4", "6", "0", "9", "4", "4", "5", "9">>, <<"+", "1", "3", "1", "4", "6", "0", "9", "4", "4", "5", "9", "A">>, <<"t", "e", "s", "t", "@", "e", "x", "a", "m", "p", "l", "e", ".", "c", "o", "m">>,
      <<"t", "e", "s", "t", "e", "x", "a", "m", "p", "l", "e", ".", "c", "o", "m">>, <<" ", "T", "e", "s", "t", "@", "E", "x", "a", "m", "p", "l", "e", ".", "C", "O", "M", " ">>, <<"1", "2", "3", "4", "5">>, <<"1", "2", "3", "4", "5", "6">>, <<"+", "1", "2", "3", "4", "5">>, <<"+", "1", " ", "2", "3", " ", "4", "5", "6">>,
      <<"1", "2", "3", "4", "+", "5", "6">>, <<"a", "b", "1", "2">>, <<"a", "b", "-", "1", "2">>, <<"a", "b", " ", "1", "2", "3">>, <<"H", "E", "L", "S", "F", "I", "H">>, <<"h", "e", "l", "s", "f", "i", "h", "h">>, <<"H", "E", "L", "S", "F", "I", "H", "H", "X", "X", "X">>,
      <<"H", "E", "L", "S", "F", "I", "H", "H", "X", "X", "X", "X">>, <<" ", "f", "i", "n", " ">>, <<"a", "@", "b", ".", "c", "1">>, <<"a", "@", "b", ".", "c">> }

SanitizerInputs == Strings(SanitizerChars, MaxLen) \cup SanitizerValues

InitSanitize ==
    /\ fn = ""
    /\ arg \in SanitizerInputs
    /\ opt \in [kind : SanitizedKinds]
    /\ out = Return(NoneVal)
    /\ from = "caller"
    /\ log = <<>>

\* the caller sanitizes the value it holds
Sanitize ==
    /\ fn = ""
    /\ fn' = "sanitizer"
    /\ out' = ApplySanitizer(opt.kind, arg)
    /\ UNCHANGED <<arg, opt, from, log>>

\* the caller validates the value that the sanitizer returned
ValidateSanitized ==
    /\ fn = "sanitizer"
    /\ Returned(out)
    /\ out.value # <<>>
    /\ fn' = "validator"
    /\ from' = "sanitizer"
    /\ log' = Append(log, out.value)
    /\ out' = ValidatorOfKind(opt.kind, out.value)
    /\ UNCHANGED <<arg, opt>>

NextSanitize == Sanitize \/ ValidateSanitized

SpecSanitize == InitSanitize /\ [][NextSanitize]_vars

\* C29: a sanitizer returns a non-empty string exactly when the validator
\* of its kind accepts the input, the string is then the filtered input, and
\* the validator accepts that string
SanitizerAgrees ==
    /\ fn = "sanitizer" =>
        /\ Returned(out)
        /\ out.value # <<>> <=> Returned(ValidatorOfKind(opt.kind, arg))
        /\ out.value # <<>> => out.value = FilterOfKind(opt.kind, arg).value
    /\ (fn = "validator" /\ from = "sanitizer") => Returned(out)

\* the phone number +13146094459A was sanitized to +13146094459, which the
\* validator accepted
SanitizerAgreesWitness ==
    /\ fn = "validator"
    /\ from = "sanitizer"
    /\ opt.kind = "phone"
    /\ arg = <<"+", "1", "3", "1", "4", "6", "0", "9", "4", "4", "5", "9", "A">>
    /\ log = << <<"+", "1", "3", "1", "4", "6", "0", "9", "4", "4", "5", "9">> >>
    /\ Returned(out)

----------------------------------------------------------------------------
(* Calendar ranges of one unit *)

CalendarUnits == {"week", "month", "year"}

LastRange(unit, today, tz) ==
    CASE unit = "week" -> last_week(today, tz)
      [] unit = "month" -> last_month(today, tz)
      [] unit = "year" -> last_year(today, tz)

ThisRange(unit, today, tz) ==
    CASE unit = "week" -> this_week(today, tz)
      [] unit = "month" -> this_month(today, tz)
      [] unit = "year" -> this_year(today, tz)

NextRangeOf(unit, today, tz) ==
    CASE unit = "week" -> next_week(today, tz)
      [] unit = "month" -> next_month(today, tz)
      [] unit = "year" -> next_year(today, tz)

InitCalendar ==
    /\ fn = ""
    /\ arg \in CalendarUnits
    /\ opt \in [today : Todays, tz : RangeTimezones]
    /\ out = Return(NoneVal)
    /\ from = "caller"
    /\ log = <<>>

\* the caller asks for the last, this and the next unit of the same today
CallLast ==
    /\ fn = ""
    /\ fn' = "last"
    /\ out' = LastRange(arg, opt.today, opt.tz)
    /\ log' = Append(log, out')
    /\ UNCHANGED <<arg, opt, from>>

CallThis ==
    /\ fn = "last"
    /\ fn' = "this"
    /\ out' = ThisRange(arg, opt.today, opt.tz)
    /\ log' = Append(log, out')
    /\ UNCHANGED <<arg, opt, from>>

CallNext ==
    /\ fn = "this"
    /\ fn' = "next"
    /\ out' = NextRangeOf(arg, opt.today, opt.tz)
    /\ log' = Append(log, out')
    /\ UNCHANGED <<arg, opt, from>>

NextCalendar == CallLast \/ CallThis \/ CallNext

SpecCalendar == InitCalendar /\ [][NextCalendar]_vars

\* 1 January of year y at midnight in the time zone of the call
NewYear(y) ==
    [year |-> y, month |-> 1, day |-> 1, hour |-> 0, minute |-> 0, second |-> 0,
     microsecond |-> 0, tzinfo |-> UtcOr(opt.tz)]

\* the range is the calendar year y, end exclusive
IsYear(range, y) == Returned(range) /\ range.value = <<NewYear(y), NewYear(y + 1)>>

\* the ranges of the three calls are adjacent
Adjacent ==
    /\ \A i \in 1..3 : Returned(log[i])
    /\ log[1].value[2] = log[2].value[1]
    /\ log[2].value[2] = log[3].value[1]

\* C30: last_X, this_X and next_X of one today are adjacent for X in week,
\* month and year, and last_year, this_year and next_year are the calendar
\* years today.year - 1, today.year and today.year + 1
CalendarRangesAdjacent ==
    fn = "next" =>
        /\ Adjacent
        /\ arg = "year" =>
            /\ IsYear(log[1], opt.today.year - 1)
            /\ IsYear(log[2], opt.today.year)
            /\ IsYear(log[3], opt.today.year + 1)

====
